---- MODULE Spec2Model ----
(***************************************************************************)
(* PlugSafe: the threat classification and keystroke-rate monitoring       *)
(* engine (threat_analyzer.c, hid_monitor.c) driven by the TinyUSB host    *)
(* callbacks of usb_host.c.                                                *)
(*                                                                         *)
(* The three bounded tables are arrays of MAX_DEVICES slots; the model     *)
(* numbers the slots 1..4 where the C code numbers them 0..3.  Fields that *)
(* no handler ever reads back to take a decision (vid, pid, subclass,      *)
(* protocol, the three strings, descriptor_ready, strings_ready,           *)
(* connected_time_ms, instance, device_threat_t.dev_addr) are left out of  *)
(* the rows.  hid_protocol is read by threat_analyze_device and written by *)
(* no handler: it keeps the 0 of the memset.                               *)
(*                                                                         *)
(* Twelve specifications share the handlers:                               *)
(*   Spec          one port, the documented event protocol, explored       *)
(*                 completely;                                             *)
(*   SpecAnyOrder  any event at any time, up to MaxEvents events;          *)
(*   SpecFewEvents the same, up to MaxFewEvents events;                    *)
(*   SpecRate      one report for every window count up to MaxCount and    *)
(*                 every clock value of RateClocks;                        *)
(*   SpecDevices   five devices behind a hub, mounts and unmounts only;    *)
(*   SpecAnalyze   the static classification of every identity snapshot;   *)
(*   SpecDetector  the passive detection and its LED (usb_detector.c);     *)
(*   SpecGpio      the identity table filled by GPIO registration;         *)
(*   SpecDetectorLive  the detector polled by the main loop, with weak     *)
(*                 fairness of the update;                                 *)
(*   SpecReentrant tuh_mount_cb in two steps around its blocking           *)
(*                 transfers, up to MaxReentrantEvents events;             *)
(*   SpecPair      two addresses, any event at any time, up to             *)
(*                 MaxPairEvents events;                                   *)
(*   SpecWide      one report for window counts around the largest count   *)
(*                 whose product with 1000 fits 32 bits.                   *)
(***************************************************************************)
EXTENDS Integers, Sequences, FiniteSets, TLC

\* ---------------------------------------------------------------- constants
MAX_DEVICES == 4
MAX_TRACKED_DEVICES == 4
MAX_HID_DEVICES == 4
HID_KEYSTROKE_THRESHOLD_HZ == 50
KEYSTROKE_RATE_WINDOW_MS == 1000
THREAT_SAFE == 0
THREAT_POTENTIALLY_UNSAFE == 1
THREAT_MALICIOUS == 2
HID_PROTOCOL_KEYBOARD == 1
HID_PROTOCOL_MOUSE == 2
USB_CLASS_HID == 3
USB_CLASS_HUB == 9

\* a uint32_t is handled as two 16-bit halves: TLC's integers are 32-bit signed
HalfWord == 2 ^ 16

\* tusb_config.h
CFG_TUH_DEVICE_MAX == 4
CFG_TUH_HUB == 1

\* usb_detector.h
USB_DETECTOR_STATE_SEARCHING == 0
USB_DETECTOR_STATE_DETECTED == 1
USB_DETECTOR_SEARCH_BLINK_PERIOD_MS == 1000
USB_DETECTOR_DEVICE_BLINK_PERIOD_MS == 400
USB_DETECTOR_VBUS_DEBOUNCE_MS == 50
USB_DETECTOR_UPDATE_INTERVAL_MS == 20

\* ------------------------------------------------------------------- bounds
\* the clock advances one window length at a time and stops after MaxTicks steps
MaxTicks == 2
\* report events are delivered while the lifetime counters stay within this
MaxReports == 152
\* a device exposes at most this many HID interfaces
MaxItf == 2
\* a behaviour of SpecAnyOrder processes at most this many events
MaxEvents == 6
\* SpecRate starts with up to this many reports counted in the open window
MaxCount == 200
\* how many events a run of SpecFewEvents delivers
MaxFewEvents == 4
\* the clock of SpecDetector stops after this many steps of DetectorStepMs
MaxDetectorTicks == 12
\* a behaviour of SpecReentrant processes at most this many events
MaxReentrantEvents == 7
\* a behaviour of SpecPair processes at most this many events
MaxPairEvents == 4
\* SpecWide draws window counts this far below and above a multiple of
\* WrapCount
MaxWideOffset == 5

TickMs == KEYSTROKE_RATE_WINDOW_MS
MaxTime == MaxTicks * TickMs
\* SpecDetector lets the clock advance by half the shorter LED on/off time
DetectorStepMs == USB_DETECTOR_DEVICE_BLINK_PERIOD_MS \div 4
MaxDetectorTime == MaxDetectorTicks * DetectorStepMs

\* device addresses handed out by the enumeration layer
DevAddrs == {1, 2}
\* the address the device plugged into the board's own port is given
PortAddrs == {1}
\* the addresses of the devices behind a hub: CFG_TUH_DEVICE_MAX devices and
\* CFG_TUH_HUB hubs can be attached at once
HostAddrs == 1 .. (CFG_TUH_DEVICE_MAX + CFG_TUH_HUB)
\* bDeviceClass values a device descriptor may carry
DeviceClasses == {0, USB_CLASS_HUB}
\* interface protocols tuh_hid_interface_protocol() may return
ItfProtocols == {0, HID_PROTOCOL_KEYBOARD, HID_PROTOCOL_MOUSE}
\* how many reports one drain of the event queue delivers back to back
ReportBursts == {50, 51}
\* clock values at which SpecRate delivers its report: before the window of
\* 1000 ms is over, at its end and after it
RateClocks == {0, 500, 999, 1000, 1001, 1500, 2000, 30000}

Slots == 1 .. MAX_DEVICES

VARIABLES
    g_usb_devices,      \* usb_host.c: identity table
    g_hub_connected,    \* usb_host.c: standing hub warning flag
    g_threat_devices,   \* threat_analyzer.c: threat records
    g_hid_monitors,     \* hid_monitor.c: rate samples
    tuh_mounted,        \* TinyUSB: the addresses it has mounted, tuh_mounted()
    tuh_itf,            \* TinyUSB: per address, the interface protocols of the
                        \* HID interfaces it has mounted, in instance order, as
                        \* read back by tuh_hid_interface_protocol()
    now,                \* to_ms_since_boot(get_absolute_time())
    events,             \* events processed so far, counted by SpecAnyOrder
                        \* and SpecRate only
    usb_detector,       \* usb_detector.c: the file's static variables
    pins,               \* the levels of the D+ and D- inputs (GP0, GP1)
    registered,         \* history: the addresses usb_register_gpio_device
                        \* has handed out and that are still tracked, in the
                        \* order of their registration
    mounting            \* the tuh_mount_cb that waits in a synchronous
                        \* descriptor transfer: its daddr and the slot its
                        \* local dev points to; NoMount when there is none

vars == <<g_usb_devices, g_hub_connected, g_threat_devices, g_hid_monitors,
          tuh_mounted, tuh_itf, now, events, usb_detector, pins, registered,
          mounting>>

NoMount == [daddr |-> 0, slot |-> 0]

\* the state of the passive (GPIO) detection, which no TinyUSB callback touches
gpio == <<usb_detector, pins, registered>>

\* --------------------------------------------------------- usb_detector.c
\* The statics of usb_detector.c as one record; the functions take the record,
\* the pin levels and the clock and give the record they leave behind.
\* mutant: a device is seen only when both lines are high
usb_detector_detect_device_both(p) == p.dp /\ p.dm

usb_detector_detect_device(p) == p.dp \/ p.dm

usb_detector_led_control(d, on) == [d EXCEPT !.led_state = on]

\* the clock is monotone and far from 2^32 ms, so now_ms - led_last_toggle_ms
\* does not wrap
usb_detector_update_led_always(d, t) ==
    LET blink_period ==
            IF d.current_state = USB_DETECTOR_STATE_SEARCHING
            THEN USB_DETECTOR_SEARCH_BLINK_PERIOD_MS
            ELSE USB_DETECTOR_DEVICE_BLINK_PERIOD_MS
        half_period == blink_period \div 2
        elapsed == t - d.led_last_toggle_ms
    IN  IF elapsed >= half_period
        THEN [usb_detector_led_control(d, ~d.led_state)
                  EXCEPT !.led_last_toggle_ms = t]
        ELSE d

usb_detector_update_led(d, t) ==
    IF d.manual_led_control
    THEN d
    ELSE LET blink_period ==
                 IF d.current_state = USB_DETECTOR_STATE_SEARCHING
                 THEN USB_DETECTOR_SEARCH_BLINK_PERIOD_MS
                 ELSE USB_DETECTOR_DEVICE_BLINK_PERIOD_MS
             half_period == blink_period \div 2
             elapsed == t - d.led_last_toggle_ms
         IN  IF elapsed >= half_period
             THEN [usb_detector_led_control(d, ~d.led_state)
                       EXCEPT !.led_last_toggle_ms = t]
             ELSE d

\* mutant: an agreeing sample leaves the debounce counter as it is
usb_detector_update_state_noreset(d, p, t) ==
    LET device_detected == usb_detector_detect_device(p)
        expected_detected == (d.current_state = USB_DETECTOR_STATE_DETECTED)
        counter == d.debounce_counter + USB_DETECTOR_UPDATE_INTERVAL_MS
    IN  IF device_detected = expected_detected
        THEN d
        ELSE IF counter >= USB_DETECTOR_VBUS_DEBOUNCE_MS
             THEN [d EXCEPT !.previous_state = d.current_state,
                            !.current_state =
                                IF device_detected
                                THEN USB_DETECTOR_STATE_DETECTED
                                ELSE USB_DETECTOR_STATE_SEARCHING,
                            !.state_change_time_ms = t,
                            !.debounce_counter = 0]
             ELSE [d EXCEPT !.debounce_counter = counter]

usb_detector_update_state(d, p, t) ==
    LET device_detected == usb_detector_detect_device(p)
        expected_detected == (d.current_state = USB_DETECTOR_STATE_DETECTED)
        counter == d.debounce_counter + USB_DETECTOR_UPDATE_INTERVAL_MS
    IN  IF device_detected = expected_detected
        THEN [d EXCEPT !.debounce_counter = 0]
        ELSE IF counter >= USB_DETECTOR_VBUS_DEBOUNCE_MS
             THEN [d EXCEPT !.previous_state = d.current_state,
                            !.current_state =
                                IF device_detected
                                THEN USB_DETECTOR_STATE_DETECTED
                                ELSE USB_DETECTOR_STATE_SEARCHING,
                            !.state_change_time_ms = t,
                            !.debounce_counter = 0]
             ELSE [d EXCEPT !.debounce_counter = counter]

usb_detector_init(t) ==
    [current_state |-> USB_DETECTOR_STATE_SEARCHING,
     previous_state |-> USB_DETECTOR_STATE_SEARCHING,
     debounce_counter |-> 0,
     led_state |-> FALSE,
     manual_led_control |-> FALSE,
     led_last_toggle_ms |-> t,
     state_change_time_ms |-> t]

usb_detector_update(d, p, t) ==
    LET s == usb_detector_update_led(usb_detector_update_state(d, p, t), t)
    IN  IF s.current_state # s.previous_state
        THEN [s EXCEPT !.previous_state = s.current_state]
        ELSE s

usb_detector_get_state(d) == d.current_state

usb_detector_is_device_connected(d) ==
    d.current_state = USB_DETECTOR_STATE_DETECTED

usb_detector_set_led(d, state) ==
    usb_detector_led_control([d EXCEPT !.manual_led_control = TRUE], state # 0)

\* both inputs are pulled down: nothing plugged in reads low on both
PinsLow == [dp |-> FALSE, dm |-> FALSE]

\* ------------------------------------------------------------------- rows
\* memset(row, 0, sizeof(row)) of a usb_device_info_t
ZeroDevice ==
    [dev_addr |-> 0, usb_class |-> 0, is_hid |-> FALSE, hid_protocol |-> 0,
     is_mounted |-> FALSE]

\* memset of a device_threat_t
ZeroThreat ==
    [device |-> ZeroDevice, threat_level |-> THREAT_SAFE,
     hid_report_count |-> 0, hid_reports_per_sec |-> 0, is_active |-> FALSE]

\* memset of a hid_monitor_t
ZeroMonitor ==
    [dev_addr |-> 0, total_reports |-> 0, reports_this_second |-> 0,
     last_window_start_ms |-> 0, peak_rate_hz |-> 0, current_rate_hz |-> 0,
     is_monitoring |-> FALSE]

\* index of the first slot of S in scan order, 0 for "NULL"
FirstSlot(S) == IF S = {} THEN 0 ELSE CHOOSE i \in S : \A j \in S : i <= j

\* ------------------------------------------------------------ hid_monitor.c
hid_get_monitor_stats(M, dev_addr) ==
    FirstSlot({i \in Slots : M[i].dev_addr = dev_addr /\ M[i].is_monitoring})

\* mutant: with no free slot the new sample replaces the one in the last slot
hid_monitor_add_device_evict(M, dev_addr, t) ==
    LET i == FirstSlot({j \in Slots : ~M[j].is_monitoring})
        k == IF i = 0 THEN MAX_HID_DEVICES ELSE i
    IN  [M EXCEPT ![k] = [ZeroMonitor EXCEPT !.dev_addr = dev_addr,
                                             !.is_monitoring = TRUE,
                                             !.last_window_start_ms = t]]

hid_monitor_add_device(M, dev_addr, t) ==
    LET i == FirstSlot({j \in Slots : ~M[j].is_monitoring})
    IN  IF i = 0 THEN M
        ELSE [M EXCEPT ![i] = [ZeroMonitor EXCEPT !.dev_addr = dev_addr,
                                                  !.is_monitoring = TRUE,
                                                  !.last_window_start_ms = t]]

\* mutant: the rate is computed for the nominal window length
WindowRate_nominal(count, elapsed_ms) ==
    (count * 1000) \div KEYSTROKE_RATE_WINDOW_MS

\* (mon->reports_this_second * 1000) / elapsed_ms: the product is a uint32_t
\* product (reduced modulo 2^32), the division is a 64-bit division and the
\* quotient is stored into the uint32_t field current_rate_hz.  The product is
\* computed on 16-bit halves; count < 2^31 and 0 < elapsed_ms < 2^15.
WindowRate(count, elapsed_ms) ==
    LET a    == count \div HalfWord
        b    == count % HalfWord
        lo   == (b * 1000) % HalfWord
        hi   == (a * 1000 + (b * 1000) \div HalfWord) % HalfWord
    IN  (hi \div elapsed_ms) * HalfWord
        + ((hi % elapsed_ms) * HalfWord + lo) \div elapsed_ms

\* mutant: a report for an address without a sample starts one
hid_monitor_report_autocreate(M, dev_addr, t) ==
    LET i == hid_get_monitor_stats(M, dev_addr)
    IN  IF i = 0 THEN hid_monitor_add_device(M, dev_addr, t)
        ELSE LET mon     == M[i]
                 total   == mon.total_reports + 1
                 count   == mon.reports_this_second + 1
                 elapsed == t - mon.last_window_start_ms
             IN  IF elapsed >= KEYSTROKE_RATE_WINDOW_MS
                 THEN LET rate == WindowRate(count, elapsed)
                      IN  [M EXCEPT ![i] =
                              [mon EXCEPT !.total_reports = total,
                                          !.reports_this_second = 0,
                                          !.current_rate_hz = rate,
                                          !.peak_rate_hz =
                                              IF rate > mon.peak_rate_hz
                                              THEN rate ELSE mon.peak_rate_hz,
                                          !.last_window_start_ms = t]]
                 ELSE [M EXCEPT ![i] =
                          [mon EXCEPT !.total_reports = total,
                                      !.reports_this_second = count]]

\* mutant: the window is closed after half its length
hid_monitor_report_halfwindow(M, dev_addr, t) ==
    LET i == hid_get_monitor_stats(M, dev_addr)
    IN  IF i = 0 THEN M
        ELSE LET mon     == M[i]
                 total   == mon.total_reports + 1
                 count   == mon.reports_this_second + 1
                 elapsed == t - mon.last_window_start_ms
             IN  IF 2 * elapsed >= KEYSTROKE_RATE_WINDOW_MS
                 THEN LET rate == WindowRate(count, elapsed)
                      IN  [M EXCEPT ![i] =
                              [mon EXCEPT !.total_reports = total,
                                          !.reports_this_second = 0,
                                          !.current_rate_hz = rate,
                                          !.peak_rate_hz =
                                              IF rate > mon.peak_rate_hz
                                              THEN rate ELSE mon.peak_rate_hz,
                                          !.last_window_start_ms = t]]
                 ELSE [M EXCEPT ![i] =
                          [mon EXCEPT !.total_reports = total,
                                      !.reports_this_second = count]]

\* mutant: the peak rate is overwritten by every window close
hid_monitor_report_peak_follows(M, dev_addr, t) ==
    LET i == hid_get_monitor_stats(M, dev_addr)
    IN  IF i = 0 THEN M
        ELSE LET mon     == M[i]
                 total   == mon.total_reports + 1
                 count   == mon.reports_this_second + 1
                 elapsed == t - mon.last_window_start_ms
             IN  IF elapsed >= KEYSTROKE_RATE_WINDOW_MS
                 THEN LET rate == WindowRate(count, elapsed)
                      IN  [M EXCEPT ![i] =
                              [mon EXCEPT !.total_reports = total,
                                          !.reports_this_second = 0,
                                          !.current_rate_hz = rate,
                                          !.peak_rate_hz = rate,
                                          !.last_window_start_ms = t]]
                 ELSE [M EXCEPT ![i] =
                          [mon EXCEPT !.total_reports = total,
                                      !.reports_this_second = count]]

hid_monitor_report(M, dev_addr, t) ==
    \* the ++ of the two uint32_t counters cannot wrap below MaxReports
    LET i == hid_get_monitor_stats(M, dev_addr)
    IN  IF i = 0 THEN M
        ELSE LET mon     == M[i]
                 total   == mon.total_reports + 1
                 count   == mon.reports_this_second + 1
                 elapsed == t - mon.last_window_start_ms
             IN  IF elapsed >= KEYSTROKE_RATE_WINDOW_MS
                 THEN LET rate == WindowRate(count, elapsed)
                      IN  [M EXCEPT ![i] =
                              [mon EXCEPT !.total_reports = total,
                                          !.reports_this_second = 0,
                                          !.current_rate_hz = rate,
                                          !.peak_rate_hz =
                                              IF rate > mon.peak_rate_hz
                                              THEN rate ELSE mon.peak_rate_hz,
                                          !.last_window_start_ms = t]]
                 ELSE [M EXCEPT ![i] =
                          [mon EXCEPT !.total_reports = total,
                                      !.reports_this_second = count]]

hid_get_keystroke_rate(M, dev_addr) ==
    LET i == hid_get_monitor_stats(M, dev_addr)
    IN  IF i = 0 THEN 0 ELSE M[i].current_rate_hz

\* mutant: the test looks at the highest rate seen instead of the current one
hid_is_spammy_peak(M, dev_addr) ==
    LET i == hid_get_monitor_stats(M, dev_addr)
    IN  i # 0 /\ M[i].peak_rate_hz > HID_KEYSTROKE_THRESHOLD_HZ

hid_is_spammy(M, dev_addr) ==
    LET i == hid_get_monitor_stats(M, dev_addr)
    IN  i # 0 /\ M[i].current_rate_hz > HID_KEYSTROKE_THRESHOLD_HZ

\* mutant: the first monitored slot is cleared, whatever its address
hid_monitor_remove_device_first(M, dev_addr) ==
    LET i == FirstSlot({j \in Slots : M[j].is_monitoring})
    IN  IF i = 0 THEN M ELSE [M EXCEPT ![i] = ZeroMonitor]

hid_monitor_remove_device(M, dev_addr) ==
    LET i == hid_get_monitor_stats(M, dev_addr)
    IN  IF i = 0 THEN M ELSE [M EXCEPT ![i] = ZeroMonitor]

\* --------------------------------------------------------------- usb_host.c
_find_free_slot(U) == FirstSlot({i \in Slots : ~U[i].is_mounted})

_find_device(U, dev_addr) ==
    FirstSlot({i \in Slots : U[i].dev_addr = dev_addr /\ U[i].is_mounted})

usb_get_device_info(U, dev_addr) == _find_device(U, dev_addr)

usb_is_device_mounted(U, dev_addr) == _find_device(U, dev_addr) # 0

usb_get_device_count(U) == Cardinality({i \in Slots : U[i].is_mounted})

\* -------------------------------------------------------- threat_analyzer.c
\* mutant: the mouse role is classified like every other HID role
threat_analyze_device_mouse_caution(info) ==
    IF info.is_hid THEN THREAT_POTENTIALLY_UNSAFE ELSE THREAT_SAFE

threat_analyze_device(info) ==
    IF info.is_hid
    THEN IF info.hid_protocol = HID_PROTOCOL_MOUSE
         THEN THREAT_SAFE
         ELSE THREAT_POTENTIALLY_UNSAFE
    ELSE THREAT_SAFE

\* the threat table after a call of threat_analyze_device: the function reads
\* *info, prints and returns
threat_analyze_device_leaves(T, info) == T

threat_get_device_status(T, dev_addr) ==
    FirstSlot({i \in Slots : T[i].device.dev_addr = dev_addr
                             /\ T[i].device.is_mounted})

threat_get_current_level(T, dev_addr) ==
    LET i == threat_get_device_status(T, dev_addr)
    IN  IF i = 0 THEN THREAT_SAFE ELSE T[i].threat_level

threat_is_hid_spammy(T, dev_addr) ==
    LET i == threat_get_device_status(T, dev_addr)
    IN  i # 0 /\ T[i].threat_level = THREAT_MALICIOUS

threat_remove_device(T, dev_addr) ==
    LET i == FirstSlot({j \in Slots : T[j].device.dev_addr = dev_addr})
    IN  IF i = 0 THEN T ELSE [T EXCEPT ![i] = ZeroThreat]

\* mutant: only HID devices are given a threat record
threat_add_device_hid_only(T, dev_info) ==
    LET i == FirstSlot({j \in Slots : ~T[j].device.is_mounted})
    IN  IF i = 0 \/ ~dev_info.is_hid THEN T
        ELSE [T EXCEPT ![i] =
                 [ZeroThreat EXCEPT !.device = dev_info,
                                    !.threat_level = threat_analyze_device(dev_info),
                                    !.is_active = TRUE]]

threat_add_device(T, dev_info) ==
    LET i == FirstSlot({j \in Slots : ~T[j].device.is_mounted})
    IN  IF i = 0 THEN T
        ELSE [T EXCEPT ![i] =
                 [ZeroThreat EXCEPT !.device = dev_info,
                                    !.threat_level = threat_analyze_device(dev_info),
                                    !.is_active = TRUE]]

\* mutant: the re-registration stores the computed level without comparing it
threat_update_device_info_overwrite(T, dev_info) ==
    LET i == threat_get_device_status(T, dev_info.dev_addr)
    IN  IF i = 0 THEN threat_add_device(T, dev_info)
        ELSE [T EXCEPT ![i] =
                 [T[i] EXCEPT !.device = dev_info,
                              !.threat_level = threat_analyze_device(dev_info)]]

\* mutant: the re-registration reclassifies and keeps the old snapshot
threat_update_device_info_keep_snapshot(T, dev_info) ==
    LET i == threat_get_device_status(T, dev_info.dev_addr)
    IN  IF i = 0 THEN threat_add_device(T, dev_info)
        ELSE LET new_level == threat_analyze_device(dev_info)
             IN  [T EXCEPT ![i].threat_level = IF new_level > @ THEN new_level ELSE @]

threat_update_device_info(T, dev_info) ==
    LET i == threat_get_device_status(T, dev_info.dev_addr)
    IN  IF i = 0 THEN threat_add_device(T, dev_info)
        ELSE LET new_level == threat_analyze_device(dev_info)
             IN  [T EXCEPT ![i] =
                     [T[i] EXCEPT !.device = dev_info,
                                  !.threat_level =
                                      IF new_level > T[i].threat_level
                                      THEN new_level ELSE T[i].threat_level]]

\* mutant: the threshold test is "at least" instead of "greater than"
threat_update_hid_activity_atleast(T, U, M, dev_addr) ==
    LET i == threat_get_device_status(T, dev_addr)
    IN  IF i = 0 THEN T
        ELSE LET windowed_rate == hid_get_keystroke_rate(M, dev_addr)
                 live_dev == usb_get_device_info(U, dev_addr)
                 mark     == ~T[i].device.is_hid /\ live_dev # 0
                             /\ U[live_dev].is_hid
                 level1   == IF mark /\ T[i].threat_level < THREAT_POTENTIALLY_UNSAFE
                             THEN THREAT_POTENTIALLY_UNSAFE
                             ELSE T[i].threat_level
                 level2   == IF windowed_rate >= HID_KEYSTROKE_THRESHOLD_HZ
                             THEN THREAT_MALICIOUS ELSE level1
             IN  [T EXCEPT ![i] =
                     [T[i] EXCEPT !.hid_report_count = T[i].hid_report_count + 1,
                                  !.hid_reports_per_sec = windowed_rate,
                                  !.device = [T[i].device EXCEPT !.is_hid =
                                                 IF mark THEN TRUE ELSE @],
                                  !.threat_level = level2]]

\* mutant: the level follows the rate of the last closed window down again
threat_update_hid_activity_follow(T, U, M, dev_addr) ==
    LET i == threat_get_device_status(T, dev_addr)
    IN  IF i = 0 THEN T
        ELSE LET windowed_rate == hid_get_keystroke_rate(M, dev_addr)
                 live_dev == usb_get_device_info(U, dev_addr)
                 mark     == ~T[i].device.is_hid /\ live_dev # 0
                             /\ U[live_dev].is_hid
             IN  [T EXCEPT ![i] =
                     [T[i] EXCEPT !.hid_report_count = T[i].hid_report_count + 1,
                                  !.hid_reports_per_sec = windowed_rate,
                                  !.device = [T[i].device EXCEPT !.is_hid =
                                                 IF mark THEN TRUE ELSE @],
                                  !.threat_level =
                                      IF windowed_rate > HID_KEYSTROKE_THRESHOLD_HZ
                                      THEN THREAT_MALICIOUS
                                      ELSE IF @ = THREAT_SAFE /\ ~mark
                                           THEN THREAT_SAFE
                                           ELSE THREAT_POTENTIALLY_UNSAFE]]

\* U is the identity table read through usb_get_device_info(), M the monitor
\* table read through hid_get_keystroke_rate()
threat_update_hid_activity(T, U, M, dev_addr) ==
    LET i == threat_get_device_status(T, dev_addr)
    IN  IF i = 0 THEN T
        ELSE LET windowed_rate == hid_get_keystroke_rate(M, dev_addr)
                 live_dev == usb_get_device_info(U, dev_addr)
                 mark     == ~T[i].device.is_hid /\ live_dev # 0
                             /\ U[live_dev].is_hid
                 level1   == IF mark /\ T[i].threat_level < THREAT_POTENTIALLY_UNSAFE
                             THEN THREAT_POTENTIALLY_UNSAFE
                             ELSE T[i].threat_level
                 level2   == IF windowed_rate > HID_KEYSTROKE_THRESHOLD_HZ
                             THEN THREAT_MALICIOUS ELSE level1
             IN  [T EXCEPT ![i] =
                     [T[i] EXCEPT !.hid_report_count = T[i].hid_report_count + 1,
                                  !.hid_reports_per_sec = windowed_rate,
                                  !.device = [T[i].device EXCEPT !.is_hid =
                                                 IF mark THEN TRUE ELSE @],
                                  !.threat_level = level2]]

\* ------------------------------------------------- usb_host.c: the callbacks
\* device-mounted
tuh_mount_cb(daddr, class) ==
    LET i == _find_free_slot(g_usb_devices)
    IN  /\ IF i = 0
           THEN UNCHANGED <<g_usb_devices, g_hub_connected, g_threat_devices>>
           ELSE LET dev == [ZeroDevice EXCEPT !.dev_addr = daddr,
                                              !.is_mounted = TRUE,
                                              !.usb_class = class]
                IN  /\ g_usb_devices' = [g_usb_devices EXCEPT ![i] = dev]
                    /\ g_hub_connected' = IF class = USB_CLASS_HUB
                                          THEN TRUE ELSE g_hub_connected
                    /\ g_threat_devices' = threat_add_device(g_threat_devices, dev)
        /\ UNCHANGED <<g_hid_monitors, tuh_itf, now, gpio, mounting>>
        /\ tuh_mounted' = tuh_mounted \cup {daddr}

\* device-unmounted
tuh_umount_cb(daddr) ==
    LET i == _find_device(g_usb_devices, daddr)
    IN  /\ IF i = 0
           THEN UNCHANGED <<g_usb_devices, g_hub_connected, g_threat_devices,
                            g_hid_monitors>>
           ELSE /\ g_hub_connected' = IF g_usb_devices[i].usb_class = USB_CLASS_HUB
                                      THEN FALSE ELSE g_hub_connected
                /\ g_threat_devices' = threat_remove_device(g_threat_devices, daddr)
                /\ g_hid_monitors' = IF g_usb_devices[i].is_hid
                                     THEN hid_monitor_remove_device(g_hid_monitors, daddr)
                                     ELSE g_hid_monitors
                /\ g_usb_devices' = [g_usb_devices EXCEPT ![i] = ZeroDevice]
        /\ tuh_mounted' = tuh_mounted \ {daddr}
        /\ tuh_itf' = [tuh_itf EXCEPT ![daddr] = <<>>]
        /\ UNCHANGED <<now, gpio, mounting>>

\* hid-role-resolved
tuh_hid_mount_cb(dev_addr, itf_protocol) ==
    LET i == _find_device(g_usb_devices, dev_addr)
    IN  /\ IF i = 0
           THEN UNCHANGED <<g_usb_devices, g_threat_devices>>
           ELSE LET dev == [g_usb_devices[i] EXCEPT
                               !.is_hid = TRUE,
                               !.usb_class = IF @ = 0 THEN USB_CLASS_HID ELSE @]
                IN  /\ g_usb_devices' = [g_usb_devices EXCEPT ![i] = dev]
                    /\ g_threat_devices' =
                           threat_update_device_info(g_threat_devices, dev)
        /\ g_hid_monitors' = hid_monitor_add_device(g_hid_monitors, dev_addr, now)
        /\ tuh_itf' = [tuh_itf EXCEPT ![dev_addr] = Append(@, itf_protocol)]
        /\ UNCHANGED <<g_hub_connected, tuh_mounted, now, gpio, mounting>>

\* mutant: the threat analyzer is fed before the monitor has counted the report
ReportOnce_classifier_first(st, U, dev_addr, t) ==
    [mon |-> hid_monitor_report(st.mon, dev_addr, t),
     thr |-> threat_update_hid_activity(st.thr, U, st.mon, dev_addr)]

\* one run of tuh_hid_report_received_cb at clock value t on the pair
\* (monitors, threats), U being the identity table
ReportOnce(st, U, dev_addr, t) ==
    LET M == hid_monitor_report(st.mon, dev_addr, t)
    IN  [mon |-> M,
         thr |-> threat_update_hid_activity(st.thr, U, M, dev_addr)]

\* k further runs of tuh_hid_report_received_cb at the clock value of a run
\* that has just completed: the elapsed time of the window is the same or 0,
\* so none of them closes a window, each adds one to the three counters, and
\* the rate, the HID mark and the level written by the first run are written
\* again unchanged.
ReportAgain(st, dev_addr, k) ==
    LET m == hid_get_monitor_stats(st.mon, dev_addr)
        t == threat_get_device_status(st.thr, dev_addr)
    IN  [mon |-> IF m = 0 THEN st.mon
                 ELSE [st.mon EXCEPT ![m].total_reports = @ + k,
                                     ![m].reports_this_second = @ + k],
         thr |-> IF t = 0 THEN st.thr
                 ELSE [st.thr EXCEPT ![t].hid_report_count = @ + k]]

\* n >= 1 runs of tuh_hid_report_received_cb at clock value t
ReportTimes(st, U, dev_addr, t, n) ==
    ReportAgain(ReportOnce(st, U, dev_addr, t), dev_addr, n - 1)

\* the closed form agrees with running the callback three times in a row
ReportTimesIsIteration ==
    \A a \in DevAddrs :
        LET st == [mon |-> g_hid_monitors, thr |-> g_threat_devices]
        IN  ReportTimes(st, g_usb_devices, a, now, 3)
                = ReportOnce(ReportOnce(ReportOnce(st, g_usb_devices, a, now),
                                        g_usb_devices, a, now),
                             g_usb_devices, a, now)

\* hid-report-received, n >= 1 times back to back within one millisecond
tuh_hid_report_received_cb(dev_addr, n) ==
    /\ LET st == ReportTimes([mon |-> g_hid_monitors, thr |-> g_threat_devices],
                             g_usb_devices, dev_addr, now, n)
       IN  /\ g_hid_monitors' = st.mon
           /\ g_threat_devices' = st.thr
    /\ UNCHANGED <<g_usb_devices, g_hub_connected, tuh_mounted, tuh_itf, now,
                   gpio, mounting>>

\* ------------------------------------------------ the read-only status queries
\* the slot enumerate-by-index returns for a 0-based index, 0 for NULL
NthMounted(S, index) ==
    FirstSlot({i \in S : Cardinality({j \in S : j < i}) = index})

\* mutant: the index is taken for the slot number
usb_get_device_at_index_slot(U, index) ==
    IF index + 1 \in Slots /\ U[index + 1].is_mounted THEN index + 1 ELSE 0

usb_get_device_at_index(U, index) ==
    NthMounted({i \in Slots : U[i].is_mounted}, index)

threat_get_device_at_index(T, index) ==
    NthMounted({i \in Slots : T[i].device.is_mounted}, index)

\* mutant: a lookup that misses takes a free slot for the address
threat_get_device_status_autocreate(T, dev_addr) ==
    LET i == FirstSlot({j \in Slots : ~T[j].device.is_mounted})
    IN  IF threat_get_device_status(T, dev_addr) # 0 \/ i = 0 THEN T
        ELSE [T EXCEPT ![i] =
                 [ZeroThreat EXCEPT !.device = [ZeroDevice EXCEPT
                                                   !.dev_addr = dev_addr,
                                                   !.is_mounted = TRUE],
                                    !.is_active = TRUE]]

\* g_threat_devices as threat_get_device_status(dev_addr) leaves it: the scan
\* ends in "return NULL" without taking a slot for an address it did not find
threat_get_device_status_leaves(T, dev_addr) == T

\* g_hid_monitors as hid_get_monitor_stats(dev_addr) leaves it
hid_get_monitor_stats_leaves(M, dev_addr) == M

\* the status layer reads the level, the rate and the record of an address
status_query(dev_addr) ==
    /\ g_threat_devices' =
           threat_get_device_status_leaves(g_threat_devices, dev_addr)
    /\ g_hid_monitors' = hid_get_monitor_stats_leaves(g_hid_monitors, dev_addr)
    /\ UNCHANGED <<g_usb_devices, g_hub_connected, tuh_mounted, tuh_itf, now,
                   gpio, mounting>>

\* time passes
Tick ==
    /\ now + TickMs <= MaxTime
    /\ now' = now + TickMs
    /\ UNCHANGED <<g_usb_devices, g_hub_connected, g_threat_devices,
                   g_hid_monitors, tuh_mounted, tuh_itf, gpio, mounting>>

\* the lifetime counters stay within MaxReports after n further reports
ReportsWithinBound(dev_addr, n) ==
    LET m == hid_get_monitor_stats(g_hid_monitors, dev_addr)
        t == threat_get_device_status(g_threat_devices, dev_addr)
    IN  /\ m # 0 => g_hid_monitors[m].total_reports + n <= MaxReports
        /\ t # 0 => g_threat_devices[t].hid_report_count + n <= MaxReports

\* usb_host_init(), threat_analyzer_init(), hid_monitor_init()
Init ==
    /\ g_usb_devices = [i \in Slots |-> ZeroDevice]
    /\ g_hub_connected = FALSE
    /\ g_threat_devices = [i \in Slots |-> ZeroThreat]
    /\ g_hid_monitors = [i \in Slots |-> ZeroMonitor]
    /\ tuh_mounted = {}
    /\ tuh_itf = [a \in DevAddrs |-> <<>>]
    /\ now = 0
    /\ events = 0
    /\ usb_detector = usb_detector_init(0)
    /\ pins = PinsLow
    /\ registered = <<>>
    /\ mounting = NoMount

\* ------------------------------------------------------------------- Spec
\* The event protocol of the documentation: the board has one USB port; the
\* enumeration layer mounts the device plugged into it, then mounts the HID
\* interfaces of the device one by one, delivers reports of a device with a
\* mounted HID interface, and unmounts the device when it is unplugged
\* (tuh_hid_umount_cb, which only prints, runs first for each interface).
\* The status layer may query any address at any time.
MountEvent ==
    \E a \in PortAddrs, c \in DeviceClasses :
        /\ tuh_mounted = {}
        /\ tuh_mount_cb(a, c)
        /\ UNCHANGED events

UmountEvent ==
    \E a \in tuh_mounted : tuh_umount_cb(a) /\ UNCHANGED events

HidMountEvent ==
    \E a \in tuh_mounted, p \in ItfProtocols :
        /\ Len(tuh_itf[a]) < MaxItf
        /\ tuh_hid_mount_cb(a, p)
        /\ UNCHANGED events

ReportEvent ==
    \E a \in tuh_mounted, n \in ReportBursts :
        /\ tuh_itf[a] # <<>>
        /\ ReportsWithinBound(a, n)
        /\ tuh_hid_report_received_cb(a, n)
        /\ UNCHANGED events

QueryEvent ==
    \E a \in DevAddrs : status_query(a) /\ UNCHANGED events

ClockStep == Tick /\ UNCHANGED events

Next ==
    \/ MountEvent
    \/ UmountEvent
    \/ HidMountEvent
    \/ ReportEvent
    \/ QueryEvent
    \/ ClockStep

Spec == Init /\ [][Next]_vars

\* ----------------------------------------------------------- SpecAnyOrder
\* The inbound event interface taken as it stands: any of the four events for
\* the port address at any time, MaxEvents of them at most.
AnyMountEvent ==
    \E a \in PortAddrs, c \in DeviceClasses :
        /\ events < MaxEvents
        /\ tuh_mount_cb(a, c)
        /\ events' = events + 1

AnyUmountEvent ==
    \E a \in PortAddrs :
        /\ events < MaxEvents
        /\ tuh_umount_cb(a)
        /\ events' = events + 1

AnyHidMountEvent ==
    \E a \in PortAddrs, p \in ItfProtocols :
        /\ events < MaxEvents
        /\ tuh_hid_mount_cb(a, p)
        /\ events' = events + 1

AnyReportEvent ==
    \E a \in PortAddrs, n \in ReportBursts :
        /\ events < MaxEvents
        /\ ReportsWithinBound(a, n)
        /\ tuh_hid_report_received_cb(a, n)
        /\ events' = events + 1

NextAnyOrder ==
    \/ AnyMountEvent
    \/ AnyUmountEvent
    \/ AnyHidMountEvent
    \/ AnyReportEvent
    \/ ClockStep

SpecAnyOrder == Init /\ [][NextAnyOrder]_vars

\* ---------------------------------------------------------- SpecFewEvents
\* The runs of SpecAnyOrder with MaxFewEvents events at most: an event that
\* meets an address with no row in a table is found among the first few.
NextFewEvents == NextAnyOrder /\ events' <= MaxFewEvents

SpecFewEvents == Init /\ [][NextFewEvents]_vars

\* --------------------------------------------------------------- SpecRate
\* The window-close computation on its own: a keyboard has mounted at address
\* 1 at time 0 and has delivered c reports since, all of them in the window
\* that is still open; the next report arrives at a clock value of RateClocks.
RateDevice ==
    [ZeroDevice EXCEPT !.dev_addr = 1, !.is_mounted = TRUE, !.is_hid = TRUE,
                       !.usb_class = USB_CLASS_HID]

RateTables(c) ==
    LET U  == [[i \in Slots |-> ZeroDevice] EXCEPT ![1] = RateDevice]
        T  == threat_update_device_info(
                  threat_add_device([i \in Slots |-> ZeroThreat],
                                    [RateDevice EXCEPT !.is_hid = FALSE,
                                                       !.usb_class = 0]),
                  RateDevice)
        M  == hid_monitor_add_device([i \in Slots |-> ZeroMonitor], 1, 0)
        st == [mon |-> M, thr |-> T]
    IN  [usb |-> U,
         st  |-> IF c = 0 THEN st ELSE ReportTimes(st, U, 1, 0, c)]

InitRate ==
    \E c \in 0 .. MaxCount, t \in RateClocks :
        /\ g_usb_devices = RateTables(c).usb
        /\ g_threat_devices = RateTables(c).st.thr
        /\ g_hid_monitors = RateTables(c).st.mon
        /\ g_hub_connected = FALSE
        /\ tuh_mounted = {1}
        /\ tuh_itf = [a \in DevAddrs |-> IF a = 1 THEN <<HID_PROTOCOL_KEYBOARD>>
                                                  ELSE <<>>]
        /\ now = t
        /\ events = 0
        /\ usb_detector = usb_detector_init(0)
        /\ pins = PinsLow
        /\ registered = <<>>
        /\ mounting = NoMount

\* one report; it closes the window when the clock has reached 1000
RateReportEvent ==
    /\ events = 0
    /\ tuh_hid_report_received_cb(1, 1)
    /\ events' = 1

NextRate == RateReportEvent

SpecRate == InitRate /\ [][NextRate]_vars

\* ------------------------------------------------------------ SpecDevices
\* The board behind a hub: up to CFG_TUH_DEVICE_MAX + CFG_TUH_HUB devices are
\* attached at once, each at an address of its own; a device mounts, its HID
\* interfaces mount, and it unmounts.  No reports are delivered and the clock
\* stands still, so every rate sample keeps the counters it was created with.
\* The enumeration layer gives a device that attaches the lowest free address.
InitDevices ==
    /\ g_usb_devices = [i \in Slots |-> ZeroDevice]
    /\ g_hub_connected = FALSE
    /\ g_threat_devices = [i \in Slots |-> ZeroThreat]
    /\ g_hid_monitors = [i \in Slots |-> ZeroMonitor]
    /\ tuh_mounted = {}
    /\ tuh_itf = [a \in HostAddrs |-> <<>>]
    /\ now = 0
    /\ events = 0
    /\ usb_detector = usb_detector_init(0)
    /\ pins = PinsLow
    /\ registered = <<>>
    /\ mounting = NoMount

\* the address given to a device that attaches: the lowest one not in use
NewAddress == CHOOSE a \in HostAddrs \ tuh_mounted :
                  \A b \in HostAddrs \ tuh_mounted : a <= b

DevMountEvent ==
    \E c \in DeviceClasses :
        /\ tuh_mounted # HostAddrs
        /\ tuh_mount_cb(NewAddress, c)
        /\ UNCHANGED events

DevUmountEvent ==
    \E a \in tuh_mounted : tuh_umount_cb(a) /\ UNCHANGED events

\* each device has one HID interface at most, a keyboard
DevHidMountEvent ==
    \E a \in tuh_mounted :
        /\ tuh_itf[a] = <<>>
        /\ tuh_hid_mount_cb(a, HID_PROTOCOL_KEYBOARD)
        /\ UNCHANGED events

NextDevices ==
    \/ DevMountEvent
    \/ DevUmountEvent
    \/ DevHidMountEvent

SpecDevices == InitDevices /\ [][NextDevices]_vars

\* ------------------------------------------------------------ SpecAnalyze
\* The static classification on its own: a caller of the threat analyzer
\* classifies an identity snapshot of its choice (ClassifyEvent) or registers
\* one in the empty threat table (RegisterEvent).
AnalyzeInputs ==
    {[dev_addr |-> a, usb_class |-> c, is_hid |-> h, hid_protocol |-> p,
      is_mounted |-> TRUE] :
        a \in HostAddrs, c \in DeviceClasses \cup {USB_CLASS_HID},
        h \in BOOLEAN, p \in ItfProtocols \cup {3}}

ClassifyEvent ==
    \E info \in AnalyzeInputs :
        /\ g_threat_devices' = threat_analyze_device_leaves(g_threat_devices, info)
        /\ UNCHANGED <<g_usb_devices, g_hub_connected, g_hid_monitors,
                       tuh_mounted, tuh_itf, now, events, gpio,
                       mounting>>

RegisterEvent ==
    \E info \in AnalyzeInputs :
        /\ events = 0
        /\ g_threat_devices' = threat_add_device(g_threat_devices, info)
        /\ events' = 1
        /\ UNCHANGED <<g_usb_devices, g_hub_connected, g_hid_monitors,
                       tuh_mounted, tuh_itf, now, gpio, mounting>>

NextAnalyze == ClassifyEvent \/ RegisterEvent

SpecAnalyze == Init /\ [][NextAnalyze]_vars

\* ============================================================== properties
\* what the status layer reads for an address in the current state
Level(a) == threat_get_current_level(g_threat_devices, a)

\* the rate samples that carry an address, in scan order
MonitorSlots(a) ==
    {i \in Slots : g_hid_monitors[i].dev_addr = a /\ g_hid_monitors[i].is_monitoring}

\* C1: while a device stays connected at an address (from its device-mounted
\* event to its next device-unmounted event), no hid-role-resolved
\* re-registration, report event or other step lowers the level read by
\* threat_get_current_level for that address: SAFE <= CAUTION <= MALICIOUS.
C1_Monotonic ==
    [][\A a \in DevAddrs :
          (a \in tuh_mounted /\ a \in tuh_mounted')
              => threat_get_current_level(g_threat_devices', a) >= Level(a)]_vars

\* a device at MALICIOUS whose second HID interface was registered after
\* the window that made it MALICIOUS had closed
C1_Witness ==
    \E a \in tuh_mounted :
        /\ Level(a) = THREAT_MALICIOUS
        /\ Len(tuh_itf[a]) = 2
        /\ \E i, j \in MonitorSlots(a) :
               /\ i < j
               /\ g_hid_monitors[i].current_rate_hz > HID_KEYSTROKE_THRESHOLD_HZ
               /\ g_hid_monitors[j].last_window_start_ms
                      > g_hid_monitors[i].last_window_start_ms

\* C2: once the level of a connected device is MALICIOUS it is MALICIOUS, and
\* threat_is_hid_spammy is true, after every later step that is not the
\* device-unmounted event of that address, whatever the rate of the windows
\* closed later and whatever the role of later hid-role-resolved events.
C2_Sticky ==
    [][\A a \in DevAddrs :
          (a \in tuh_mounted /\ a \in tuh_mounted' /\ Level(a) = THREAT_MALICIOUS)
              => /\ threat_get_current_level(g_threat_devices', a) = THREAT_MALICIOUS
                 /\ threat_is_hid_spammy(g_threat_devices', a)]_vars

\* a MALICIOUS device whose last closed window had a rate of 50 or less
C2_Witness ==
    \E a \in tuh_mounted :
        /\ Level(a) = THREAT_MALICIOUS
        /\ threat_is_hid_spammy(g_threat_devices, a)
        /\ \E i \in MonitorSlots(a) :
               /\ i = hid_get_monitor_stats(g_hid_monitors, a)
               /\ g_hid_monitors[i].peak_rate_hz > HID_KEYSTROKE_THRESHOLD_HZ
               /\ g_hid_monitors[i].current_rate_hz <= HID_KEYSTROKE_THRESHOLD_HZ
               /\ g_threat_devices[threat_get_device_status(g_threat_devices, a)]
                      .hid_reports_per_sec <= HID_KEYSTROKE_THRESHOLD_HZ

\* the rate sample a report for address a is counted in, 0 if there is none
Sample(a) == hid_get_monitor_stats(g_hid_monitors, a)

\* the number of reports counted in the open window of address a once the
\* next report has been counted, and the time since that window started
WindowCount(a) == g_hid_monitors[Sample(a)].reports_this_second + 1

Elapsed(a) == now - g_hid_monitors[Sample(a)].last_window_start_ms

\* C3: for a tracked, monitored device, when a report closes a window 1000
\* time-units after its start with 51 reports counted in it, the level is
\* MALICIOUS afterwards; when a report closes a window with exactly 50 reports
\* counted in it, the rate is at most 50 and the device is not escalated.
C3_Threshold ==
    [][\A a \in DevAddrs :
          (Sample(a) # 0 /\ threat_get_device_status(g_threat_devices, a) # 0
             /\ tuh_hid_report_received_cb(a, 1)
             /\ Elapsed(a) >= KEYSTROKE_RATE_WINDOW_MS)
              => /\ (WindowCount(a) = 51 /\ Elapsed(a) = KEYSTROKE_RATE_WINDOW_MS)
                      => threat_get_current_level(g_threat_devices', a)
                             = THREAT_MALICIOUS
                 /\ WindowCount(a) = 50
                      => /\ hid_get_keystroke_rate(g_hid_monitors', a)
                                <= HID_KEYSTROKE_THRESHOLD_HZ
                         /\ ~hid_is_spammy(g_hid_monitors', a)
                         /\ threat_get_current_level(g_threat_devices', a)
                                = Level(a)
                         /\ Level(a) = THREAT_POTENTIALLY_UNSAFE]_vars

\* the 51st report has closed the first window at time 1000 and the device
\* is MALICIOUS
C3_Witness ==
    /\ Sample(1) # 0
    /\ g_hid_monitors[Sample(1)].total_reports = 51
    /\ g_hid_monitors[Sample(1)].last_window_start_ms = KEYSTROKE_RATE_WINDOW_MS
    /\ g_hid_monitors[Sample(1)].current_rate_hz = 51
    /\ Level(1) = THREAT_MALICIOUS

\* the threat record of address a, 0 if there is none
Record(a) == threat_get_device_status(g_threat_devices, a)

\* the role of the HID interface of address a resolved last
LastRole(a) == tuh_itf[a][Len(tuh_itf[a])]

\* C4: when a monitored keyboard-role device has delivered more than 50
\* reports inside one window, the device is MALICIOUS once the report that
\* closes that window has been processed, however late that report arrives.
C4_BurstDetected ==
    [][\A a \in DevAddrs :
          (/\ Sample(a) # 0 /\ Record(a) # 0
           /\ tuh_itf[a] # <<>>
           /\ \A k \in 1 .. Len(tuh_itf[a]) : tuh_itf[a][k] = HID_PROTOCOL_KEYBOARD
           /\ g_hid_monitors[Sample(a)].reports_this_second
                  > HID_KEYSTROKE_THRESHOLD_HZ
           /\ \E n \in ReportBursts : tuh_hid_report_received_cb(a, n)
           /\ Elapsed(a) >= KEYSTROKE_RATE_WINDOW_MS)
              => threat_get_current_level(g_threat_devices', a)
                     = THREAT_MALICIOUS]_vars

\* a keyboard that delivered 51 reports at time 0 and whose next reports came
\* at time 2000: the window closed with a rate of 26 and the level is CAUTION
C4_Witness ==
    /\ tuh_itf[1] = <<HID_PROTOCOL_KEYBOARD>>
    /\ Sample(1) # 0 /\ Record(1) # 0
    /\ g_hid_monitors[Sample(1)].total_reports = 101
    /\ g_hid_monitors[Sample(1)].reports_this_second = 49
    /\ g_hid_monitors[Sample(1)].last_window_start_ms = 2 * KEYSTROKE_RATE_WINDOW_MS
    /\ g_hid_monitors[Sample(1)].current_rate_hz = 26
    /\ g_hid_monitors[Sample(1)].peak_rate_hz = 26
    /\ Level(1) = THREAT_POTENTIALLY_UNSAFE

\* C5: a connected device whose HID role, as resolved last, is mouse has
\* level SAFE in every state, whatever reports have been delivered for it.
C5_MouseSafe ==
    \A a \in tuh_mounted :
        (tuh_itf[a] # <<>> /\ LastRole(a) = HID_PROTOCOL_MOUSE)
            => Level(a) = THREAT_SAFE

\* a device whose only HID interface is a mouse is MALICIOUS
C5_Witness ==
    /\ 1 \in tuh_mounted
    /\ tuh_itf[1] = <<HID_PROTOCOL_MOUSE>>
    /\ g_usb_devices[_find_device(g_usb_devices, 1)].hid_protocol = 0
    /\ Level(1) = THREAT_MALICIOUS

\* C6: a hid-role-resolved event with mouse role does not begin monitoring:
\* it leaves the rate samples as they are.
C6_MouseNotMonitored ==
    [][\A a \in DevAddrs :
          tuh_hid_mount_cb(a, HID_PROTOCOL_MOUSE)
              => g_hid_monitors' = g_hid_monitors]_vars

\* a device whose only resolved role is mouse has a rate sample, and a
\* rate above 0 is read for its address
C6_Witness ==
    /\ 1 \in tuh_mounted
    /\ tuh_itf[1] = <<HID_PROTOCOL_MOUSE>>
    /\ Sample(1) # 0
    /\ hid_get_keystroke_rate(g_hid_monitors, 1) > 0

\* C7: a connected device for which no hid-role-resolved event has been
\* processed since the last device-unmounted event of its address has level
\* SAFE, whatever events have been processed.
C7_NonHidSafe ==
    \A a \in tuh_mounted :
        (usb_is_device_mounted(g_usb_devices, a) /\ tuh_itf[a] = <<>>)
            => Level(a) = THREAT_SAFE

\* a connected device with no HID interface resolved, flagged as not HID
\* on its identity row and in its threat record, is MALICIOUS
C7_Witness ==
    /\ 1 \in tuh_mounted
    /\ tuh_itf[1] = <<>>
    /\ usb_is_device_mounted(g_usb_devices, 1)
    /\ ~g_usb_devices[_find_device(g_usb_devices, 1)].is_hid
    /\ Record(1) # 0
    /\ ~g_threat_devices[Record(1)].device.is_hid
    /\ Level(1) = THREAT_MALICIOUS

\* C8: whenever hid_monitor_report closes a window, the stored rate becomes
\* floor(window_count * 1000 / elapsed_time), window_count being the reports
\* counted in that window, the closing one included; 200 reports over 1000
\* time-units give 200, and 10 reports over 1000 time-units give 10 with the
\* level still CAUTION.
C8_RateCorrect ==
    [][\A a \in DevAddrs :
          (Sample(a) # 0 /\ Record(a) # 0
             /\ tuh_hid_report_received_cb(a, 1)
             /\ Elapsed(a) >= KEYSTROKE_RATE_WINDOW_MS)
              => /\ hid_get_keystroke_rate(g_hid_monitors', a)
                        = (WindowCount(a) * 1000) \div Elapsed(a)
                 /\ g_hid_monitors'[Sample(a)].reports_this_second = 0
                 /\ (WindowCount(a) = 200 /\ Elapsed(a) = 1000)
                      => hid_get_keystroke_rate(g_hid_monitors', a) = 200
                 /\ (WindowCount(a) = 10 /\ Elapsed(a) = 1000)
                      => /\ hid_get_keystroke_rate(g_hid_monitors', a) = 10
                         /\ threat_get_current_level(g_threat_devices', a)
                                = THREAT_POTENTIALLY_UNSAFE]_vars

\* the 200th report has closed the first window at time 1000 with rate 200
C8_Witness ==
    /\ Sample(1) # 0
    /\ g_hid_monitors[Sample(1)].total_reports = 200
    /\ g_hid_monitors[Sample(1)].reports_this_second = 0
    /\ g_hid_monitors[Sample(1)].last_window_start_ms = KEYSTROKE_RATE_WINDOW_MS
    /\ hid_get_keystroke_rate(g_hid_monitors, 1) = 200

\* an address with no threat record and no rate sample
Unknown(a) == Record(a) = 0 /\ Sample(a) = 0

\* C9: for an address with no threat record and no rate sample the level
\* read is SAFE, the rate read is 0 and the record lookup returns nothing;
\* and a status query for such an address leaves the device count and every
\* enumerate-by-index result of the identity and threat tables as they were.
C9_UnknownDefaults ==
    /\ [](\A a \in DevAddrs :
             Unknown(a)
                 => /\ threat_get_current_level(g_threat_devices, a) = THREAT_SAFE
                    /\ hid_get_keystroke_rate(g_hid_monitors, a) = 0
                    /\ threat_get_device_status(g_threat_devices, a) = 0
                    /\ ~threat_is_hid_spammy(g_threat_devices, a)
                    /\ ~hid_is_spammy(g_hid_monitors, a))
    /\ [][\A a \in DevAddrs :
             (Unknown(a) /\ status_query(a))
                 => /\ usb_get_device_count(g_usb_devices')
                        = usb_get_device_count(g_usb_devices)
                    /\ \A index \in 0 .. MAX_DEVICES - 1 :
                         /\ usb_get_device_at_index(g_usb_devices', index)
                               = usb_get_device_at_index(g_usb_devices, index)
                         /\ threat_get_device_at_index(g_threat_devices', index)
                               = threat_get_device_at_index(g_threat_devices, index)
                    /\ g_threat_devices' = g_threat_devices
                    /\ g_hid_monitors' = g_hid_monitors]_vars

\* address 2 is unknown while the device at address 1 has a threat record at
\* CAUTION or above and a rate sample with a closed window
C9_Witness ==
    /\ Unknown(2)
    /\ Record(1) # 0 /\ Sample(1) # 0
    /\ Level(1) >= THREAT_POTENTIALLY_UNSAFE
    /\ hid_get_keystroke_rate(g_hid_monitors, 1) > 0
    /\ threat_get_device_at_index(g_threat_devices, 0) = Record(1)
    /\ threat_get_device_at_index(g_threat_devices, 1) = 0

\* C10: a device-mounted event for an address that has no connection open
\* starts the address fresh (level SAFE, stored rate 0, report counter 0), and
\* the level of the new session depends on the reports of the new session
\* only: as long as at most 50 reports have been counted for the session, no
\* window of the session can have a rate above 50 and the level is not
\* MALICIOUS.
C10_FreshSession ==
    /\ [][\A a \in DevAddrs :
             (/\ a \notin tuh_mounted /\ tuh_itf[a] = <<>>
              /\ ~usb_is_device_mounted(g_usb_devices, a)
              /\ \E c \in DeviceClasses : tuh_mount_cb(a, c))
                 => /\ threat_get_device_status(g_threat_devices', a) # 0
                    /\ LET r == g_threat_devices'[
                                    threat_get_device_status(g_threat_devices', a)]
                       IN  /\ r.threat_level = THREAT_SAFE
                           /\ r.hid_reports_per_sec = 0
                           /\ r.hid_report_count = 0]_vars
    /\ [](\A a \in tuh_mounted :
             (Record(a) # 0 /\ g_threat_devices[Record(a)].hid_report_count
                                  <= HID_KEYSTROKE_THRESHOLD_HZ)
                 => Level(a) # THREAT_MALICIOUS)

\* a session that followed a device-unmounted event and has counted 50
\* reports is MALICIOUS: the sample left from before the unmount closed its
\* window with the 51 reports it had counted and the first one of the session
C10_Witness ==
    /\ 1 \in tuh_mounted
    /\ tuh_itf[1] = <<>>
    /\ Record(1) # 0
    /\ g_threat_devices[Record(1)].hid_report_count = 50
    /\ g_threat_devices[Record(1)].hid_reports_per_sec = 52
    /\ g_hid_monitors[Sample(1)].total_reports = 101
    /\ Level(1) = THREAT_MALICIOUS

\* C11: once a device-unmounted event for an address has been processed, no
\* table holds a row for it: the identity lookup says not mounted, the threat
\* record lookup returns nothing, the rate sample lookup returns nothing and
\* the rate read is 0.
C11_UnmountClears ==
    [][\A a \in DevAddrs :
          tuh_umount_cb(a) =>
              /\ ~usb_is_device_mounted(g_usb_devices', a)
              /\ threat_get_device_status(g_threat_devices', a) = 0
              /\ hid_get_monitor_stats(g_hid_monitors', a) = 0
              /\ hid_get_keystroke_rate(g_hid_monitors', a) = 0]_vars

\* address 1 is unplugged, its identity row and threat record are gone, and a
\* rate sample of it is still monitored
C11_Witness ==
    /\ 1 \notin tuh_mounted
    /\ ~usb_is_device_mounted(g_usb_devices, 1)
    /\ Record(1) = 0
    /\ Sample(1) # 0

\* C12: at most one rate sample is monitored for any address, also when
\* several HID interfaces of one device have mounted.
C12_OneSamplePerAddress ==
    \A a \in DevAddrs : Cardinality(MonitorSlots(a)) <= 1

\* two HID interfaces of the device at address 1 have mounted in this
\* session and two rate samples carry the address
C12_Witness ==
    /\ 1 \in tuh_mounted
    /\ Len(tuh_itf[1]) = 2
    /\ Cardinality(MonitorSlots(1)) = 2

\* the identity snapshots a caller can hand to threat_add_device
Snapshots ==
    {[ZeroDevice EXCEPT !.dev_addr = a, !.is_mounted = TRUE, !.usb_class = c,
                        !.is_hid = h] :
        a \in HostAddrs, c \in DeviceClasses \cup {USB_CLASS_HID}, h \in BOOLEAN}

\* no free slot is left in the table
IdentityFull == _find_free_slot(g_usb_devices) = 0
ThreatFull == \A i \in Slots : g_threat_devices[i].device.is_mounted
MonitorsFull == \A i \in Slots : g_hid_monitors[i].is_monitoring

\* C13: with no free identity slot a device-mounted event leaves the three
\* tables and the hub flag as they were, so every tracked device keeps its
\* level and rate; with no free rate sample slot a hid-role-resolved event
\* leaves the rate sample table as it was; and on a full table
\* threat_add_device and hid_monitor_add_device return the table unchanged
\* for every snapshot and every address.
C13_FullTablesNoOp ==
    /\ [][\A c \in DeviceClasses :
            (IdentityFull /\ tuh_mounted # HostAddrs /\ tuh_mount_cb(NewAddress, c))
                => /\ UNCHANGED <<g_usb_devices, g_threat_devices, g_hid_monitors,
                                  g_hub_connected>>
                   /\ \A b \in HostAddrs :
                          /\ threat_get_current_level(g_threat_devices', b) = Level(b)
                          /\ hid_get_keystroke_rate(g_hid_monitors', b)
                                 = hid_get_keystroke_rate(g_hid_monitors, b)]_vars
    /\ [][\A a \in HostAddrs :
            (MonitorsFull /\ tuh_hid_mount_cb(a, HID_PROTOCOL_KEYBOARD))
                => UNCHANGED g_hid_monitors]_vars
    /\ [](ThreatFull =>
            \A d \in Snapshots : threat_add_device(g_threat_devices, d) = g_threat_devices)
    /\ [](MonitorsFull =>
            \A a \in HostAddrs :
                hid_monitor_add_device(g_hid_monitors, a, now) = g_hid_monitors)

\* five devices are attached: four fill the three tables, and the fifth, which
\* got no identity row, has had its HID interface mounted as well
C13_Witness ==
    /\ tuh_mounted = HostAddrs
    /\ IdentityFull /\ ThreatFull /\ MonitorsFull
    /\ \E a \in HostAddrs :
           /\ _find_device(g_usb_devices, a) = 0
           /\ tuh_itf[a] # <<>>
           /\ Sample(a) = 0

\* C14: a hid-report-received event for an address without a rate sample
\* leaves the rate sample table as it was, and one for an address without a
\* threat record leaves the threat table as it was; in every state
\* hid_monitor_report and threat_update_hid_activity return the table
\* unchanged for every address they find no row for.
C14_UntrackedWritesNoOp ==
    /\ [][\A a \in PortAddrs, n \in ReportBursts :
            tuh_hid_report_received_cb(a, n) =>
                /\ Sample(a) = 0 => UNCHANGED g_hid_monitors
                /\ Record(a) = 0 => UNCHANGED g_threat_devices]_vars
    /\ [](\A a \in DevAddrs :
            /\ Sample(a) = 0 =>
                   hid_monitor_report(g_hid_monitors, a, now) = g_hid_monitors
            /\ Record(a) = 0 =>
                   threat_update_hid_activity(g_threat_devices, g_usb_devices,
                                              g_hid_monitors, a)
                       = g_threat_devices)

\* reports have been counted in the rate sample of address 1 while the threat
\* table is empty: every one of them was delivered for an address without a
\* threat record
C14_Witness ==
    /\ Sample(1) # 0
    /\ g_hid_monitors[Sample(1)].total_reports > 0
    /\ \A i \in Slots : g_threat_devices[i] = ZeroThreat

MaxLevel(x, y) == IF x > y THEN x ELSE y

\* the snapshot of a tracked address differs from its identity row in the HID
\* flag: the case in which threat_update_hid_activity marks the record as HID
Unmarked(a) ==
    /\ Record(a) # 0
    /\ ~g_threat_devices[Record(a)].device.is_hid
    /\ usb_get_device_info(g_usb_devices, a) # 0
    /\ g_usb_devices[usb_get_device_info(g_usb_devices, a)].is_hid

\* C16: a hid-role-resolved event for an address with a threat record of
\* level L leaves the level at the higher of L and the static classification
\* of the snapshot handed over; a hid-report-received event for such an
\* address leaves the level at MALICIOUS when the rate read after the report
\* is above 50 and at L otherwise; and the same holds for
\* threat_update_device_info and threat_update_hid_activity applied in any
\* state to any tracked address.
C16_MergeRule ==
    /\ [][\A a \in DevAddrs :
            Record(a) # 0 =>
                /\ \A p \in ItfProtocols :
                       tuh_hid_mount_cb(a, p) =>
                           threat_get_current_level(g_threat_devices', a) =
                               MaxLevel(Level(a),
                                        threat_analyze_device(
                                            g_usb_devices'[_find_device(g_usb_devices', a)]))
                /\ \A n \in ReportBursts :
                       tuh_hid_report_received_cb(a, n) =>
                           threat_get_current_level(g_threat_devices', a) =
                               IF hid_get_keystroke_rate(g_hid_monitors', a)
                                      > HID_KEYSTROKE_THRESHOLD_HZ
                               THEN THREAT_MALICIOUS ELSE Level(a)]_vars
    /\ [](\A a \in DevAddrs :
            Record(a) # 0 =>
                /\ \A d \in Snapshots :
                       d.dev_addr = a =>
                           threat_update_device_info(g_threat_devices, d)[Record(a)].threat_level
                               = MaxLevel(Level(a), threat_analyze_device(d))
                /\ threat_update_hid_activity(g_threat_devices, g_usb_devices,
                                              g_hid_monitors, a)[Record(a)].threat_level
                       = IF hid_get_keystroke_rate(g_hid_monitors, a)
                                > HID_KEYSTROKE_THRESHOLD_HZ
                         THEN THREAT_MALICIOUS ELSE Level(a))

\* no tracked address ever has a snapshot without the HID flag next to an
\* identity row with it
C16_NeverUnmarked == \A a \in DevAddrs : ~Unmarked(a)

\* a device that is MALICIOUS has had a second HID interface resolved and has
\* been heard from again with a rate of 50 or less: both merges met a lower
\* candidate and kept the level
C16_Witness ==
    /\ Level(1) = THREAT_MALICIOUS
    /\ Len(tuh_itf[1]) = 2
    /\ g_threat_devices[Record(1)].hid_reports_per_sec <= HID_KEYSTROKE_THRESHOLD_HZ
    /\ g_threat_devices[Record(1)].hid_report_count > 2 * HID_KEYSTROKE_THRESHOLD_HZ

\* what hid_get_keystroke_rate reads for an address in the current state
CurrentRate(a) == hid_get_keystroke_rate(g_hid_monitors, a)

\* C17: the rate read for an address changes only in a hid-report-received
\* event for that address that arrives 1000 time-units or more after the
\* start of the open window, or in the device-unmounted event of that address
\* (which stops the monitoring); every other step leaves it as it was.
C17_RateFrame ==
    [][\A a \in DevAddrs :
          hid_get_keystroke_rate(g_hid_monitors', a) # CurrentRate(a) =>
              \/ /\ Sample(a) # 0
                 /\ Elapsed(a) >= KEYSTROKE_RATE_WINDOW_MS
                 /\ \E n \in ReportBursts : tuh_hid_report_received_cb(a, n)
              \/ tuh_umount_cb(a)]_vars

\* the rate sample read for address 1 was started after another sample of
\* the address had closed a window: the rate read is 0 and the older sample
\* holds a rate above 0
C17_Witness ==
    /\ Sample(1) # 0
    /\ CurrentRate(1) = 0
    /\ \E j \in MonitorSlots(1) :
           /\ j > Sample(1)
           /\ g_hid_monitors[j].current_rate_hz > 0

\* C18: after a hid-report-received event for a tracked address the rate
\* stored in its threat record is the rate the monitor holds after that same
\* report, and when the report has closed a window with a rate above 50 the
\* level is MALICIOUS at the end of the event.
C18_MonitorBeforeClassifier ==
    [][\A a \in DevAddrs :
          (Record(a) # 0 /\ tuh_hid_report_received_cb(a, 1))
              => /\ g_threat_devices'[Record(a)].hid_reports_per_sec
                        = hid_get_keystroke_rate(g_hid_monitors', a)
                 /\ (/\ Sample(a) # 0
                     /\ Elapsed(a) >= KEYSTROKE_RATE_WINDOW_MS
                     /\ hid_get_keystroke_rate(g_hid_monitors', a)
                            > HID_KEYSTROKE_THRESHOLD_HZ)
                        => threat_get_current_level(g_threat_devices', a)
                               = THREAT_MALICIOUS]_vars

\* the one report of the run has closed the window with a rate above 50; the
\* threat record holds that rate and the level is MALICIOUS
C18_Witness ==
    /\ events = 1
    /\ Sample(1) # 0 /\ Record(1) # 0
    /\ g_hid_monitors[Sample(1)].reports_this_second = 0
    /\ g_hid_monitors[Sample(1)].last_window_start_ms = now
    /\ CurrentRate(1) > HID_KEYSTROKE_THRESHOLD_HZ
    /\ g_threat_devices[Record(1)].hid_reports_per_sec = CurrentRate(1)
    /\ Level(1) = THREAT_MALICIOUS

\* C19: a report that arrives less than 1000 time-units after the start of
\* the window (0 included) adds one to the lifetime counter and to the window
\* counter of the sample and leaves the rest of the sample (current rate,
\* peak rate, window start) as it was; the window is closed, and the division
\* by the elapsed time carried out, only when the elapsed time is 1000 or
\* more.
C19_OpenWindow ==
    [][\A a \in DevAddrs :
          (Sample(a) # 0 /\ tuh_hid_report_received_cb(a, 1))
              => /\ Elapsed(a) < KEYSTROKE_RATE_WINDOW_MS
                     => g_hid_monitors' =
                            [g_hid_monitors EXCEPT
                                ![Sample(a)].total_reports = @ + 1,
                                ![Sample(a)].reports_this_second = @ + 1]
                 /\ g_hid_monitors'[Sample(a)].last_window_start_ms
                        # g_hid_monitors[Sample(a)].last_window_start_ms
                     => Elapsed(a) >= KEYSTROKE_RATE_WINDOW_MS]_vars

\* the one report of the run has arrived with no time elapsed since the
\* window started: it is counted and the window is still open
C19_Witness ==
    /\ events = 1
    /\ now = 0
    /\ Sample(1) # 0
    /\ g_hid_monitors[Sample(1)].last_window_start_ms = 0
    /\ g_hid_monitors[Sample(1)].reports_this_second
           = g_hid_monitors[Sample(1)].total_reports
    /\ g_hid_monitors[Sample(1)].total_reports > HID_KEYSTROKE_THRESHOLD_HZ
    /\ CurrentRate(1) = 0
    /\ g_hid_monitors[Sample(1)].peak_rate_hz = 0

usb_is_hub_connected == g_hub_connected

\* an identity row of a connected device carries the hub device class
HubAttached ==
    \E i \in Slots : g_usb_devices[i].is_mounted
                     /\ g_usb_devices[i].usb_class = USB_CLASS_HUB

\* C20: in every state reached by mount and unmount events,
\* usb_is_hub_connected() is true exactly when a connected device has the hub
\* device class, also after one of two hub-class devices has been unmounted.
C20_HubFlag == usb_is_hub_connected <=> HubAttached

\* two hub-class devices were attached and one of them has been unmounted:
\* the other one is still in the identity table and the flag is off
C20_Witness ==
    /\ Cardinality(tuh_mounted) = 1
    /\ HubAttached
    /\ ~usb_is_hub_connected

\* the mounted identity rows and the mounted threat records of an address
IdentityRows(a) ==
    {i \in Slots : g_usb_devices[i].is_mounted /\ g_usb_devices[i].dev_addr = a}

ThreatRows(a) ==
    {i \in Slots : g_threat_devices[i].device.is_mounted
                   /\ g_threat_devices[i].device.dev_addr = a}

\* C21: the identity table and the threat table each hold at most one mounted
\* row per address, also after a device-mounted event for an address that
\* already has a row, so the device count is at most the number of addresses
\* that have a row.
C21_OneRowPerAddress ==
    /\ \A a \in HostAddrs :
           /\ Cardinality(IdentityRows(a)) <= 1
           /\ Cardinality(ThreatRows(a)) <= 1
    /\ usb_get_device_count(g_usb_devices)
           <= Cardinality({a \in HostAddrs : IdentityRows(a) # {}})

\* address 1 has been mounted twice with no unmount in between and owns two
\* identity rows and two threat records; the device count is 2
C21_Witness ==
    /\ Cardinality(IdentityRows(1)) = 2
    /\ Cardinality(ThreatRows(1)) = 2
    /\ usb_get_device_count(g_usb_devices) = 2

\* C22: in every state the addresses that have a mounted identity row are
\* the addresses that have a threat record, HID or not.
C22_RecordPerDevice ==
    {a \in HostAddrs : IdentityRows(a) # {}} = {a \in HostAddrs : ThreatRows(a) # {}}

\* two devices are connected, one of them HID and the other not, and each has
\* an identity row and a threat record
C22_Witness ==
    \E a, b \in tuh_mounted :
        /\ IdentityRows(a) # {} /\ ThreatRows(a) # {}
        /\ IdentityRows(b) # {} /\ ThreatRows(b) # {}
        /\ g_usb_devices[_find_device(g_usb_devices, a)].is_hid
        /\ ~g_usb_devices[_find_device(g_usb_devices, b)].is_hid
        /\ ~g_threat_devices[threat_get_device_status(g_threat_devices, b)].device.is_hid

\* C23: every address that has a monitored rate sample has a mounted identity
\* row with the HID flag, also after a hid-role-resolved event for an address
\* whose mount was turned down by the full identity table.
C23_SampleOnlyForHidDevice ==
    \A a \in HostAddrs :
        MonitorSlots(a) # {} =>
            \E i \in IdentityRows(a) : g_usb_devices[i].is_hid

\* five devices are attached; the one whose mount found the identity table
\* full has had its HID interface resolved and owns a rate sample
C23_Witness ==
    /\ tuh_mounted = HostAddrs
    /\ \E a \in HostAddrs :
           /\ IdentityRows(a) = {}
           /\ tuh_itf[a] # <<>>
           /\ MonitorSlots(a) # {}

\* C24: in every state hid_is_spammy of an address is true exactly when the
\* rate read for the address is above 50: false at 50, true at 51, false for
\* an address without a rate sample, and false again once a later window has
\* closed with a rate of 50 or less.
C24_SpammyIsRateAboveThreshold ==
    \A a \in DevAddrs :
        /\ hid_is_spammy(g_hid_monitors, a)
               <=> CurrentRate(a) > HID_KEYSTROKE_THRESHOLD_HZ
        /\ CurrentRate(a) = 50 => ~hid_is_spammy(g_hid_monitors, a)
        /\ CurrentRate(a) = 51 => hid_is_spammy(g_hid_monitors, a)
        /\ Sample(a) = 0 => ~hid_is_spammy(g_hid_monitors, a)
        /\ (/\ Sample(a) # 0
            /\ g_hid_monitors[Sample(a)].peak_rate_hz > HID_KEYSTROKE_THRESHOLD_HZ
            /\ CurrentRate(a) <= HID_KEYSTROKE_THRESHOLD_HZ)
               => ~hid_is_spammy(g_hid_monitors, a)

\* a window has closed with a rate above 50 and a later one with a rate of
\* 50 or less: the test is false again
C24_Witness ==
    /\ Sample(1) # 0
    /\ g_hid_monitors[Sample(1)].peak_rate_hz > HID_KEYSTROKE_THRESHOLD_HZ
    /\ CurrentRate(1) <= HID_KEYSTROKE_THRESHOLD_HZ
    /\ g_hid_monitors[Sample(1)].last_window_start_ms = 2 * KEYSTROKE_RATE_WINDOW_MS
    /\ ~hid_is_spammy(g_hid_monitors, 1)

\* index values a caller may pass: those of the slots and two beyond them
Indices == 0 .. (MAX_DEVICES + 1)

\* the mounted identity slots and the active threat slots
MountedSlots == {i \in Slots : g_usb_devices[i].is_mounted}
ActiveSlots == {i \in Slots : g_threat_devices[i].is_active}

IdentityRow(a) == g_usb_devices[_find_device(g_usb_devices, a)]
Snapshot(a) == g_threat_devices[Record(a)].device

\* C26: in every state, so after a device-mounted event and after each
\* hid-role-resolved event, the snapshot in the threat record of a connected
\* device equals its identity row; and the snapshot of an address changes
\* only in a device-mounted, hid-role-resolved or device-unmounted event of
\* that address, the events that hand the row to the threat analyzer.
C26_SnapshotIsCopy ==
    /\ [](\A a \in HostAddrs :
            (_find_device(g_usb_devices, a) # 0 /\ Record(a) # 0)
                => Snapshot(a) = IdentityRow(a))
    /\ [][\A a \in HostAddrs :
            (/\ Record(a) # 0
             /\ threat_get_device_status(g_threat_devices', a) # 0
             /\ g_threat_devices'[threat_get_device_status(g_threat_devices', a)].device
                    # Snapshot(a))
                => \/ \E c \in DeviceClasses : tuh_mount_cb(a, c)
                   \/ \E p \in ItfProtocols : tuh_hid_mount_cb(a, p)
                   \/ tuh_umount_cb(a)]_vars

\* the HID interface of a device whose descriptor carried class 0 has been
\* resolved: the identity row has the HID flag and class 3, and so has the
\* snapshot
C26_Witness ==
    /\ 1 \in tuh_mounted
    /\ Record(1) # 0
    /\ IdentityRow(1).is_hid
    /\ IdentityRow(1).usb_class = USB_CLASS_HID
    /\ Snapshot(1) = IdentityRow(1)
    /\ g_threat_devices[Record(1)].hid_report_count > 0

\* C27: a hid-role-resolved event for a connected device whose level is SAFE
\* sets the HID flag of the identity row, hands the row to the threat
\* analyzer and leaves the level at CAUTION when the role is keyboard or
\* unresolved, and at SAFE when the role is mouse.
C27_RoleEscalates ==
    [][\A a \in DevAddrs, p \in ItfProtocols :
          (/\ _find_device(g_usb_devices, a) # 0
           /\ Record(a) # 0
           /\ Level(a) = THREAT_SAFE
           /\ tuh_hid_mount_cb(a, p))
              => /\ g_usb_devices'[_find_device(g_usb_devices', a)].is_hid
                 /\ g_threat_devices'[threat_get_device_status(g_threat_devices', a)].device
                        = g_usb_devices'[_find_device(g_usb_devices', a)]
                 /\ threat_get_current_level(g_threat_devices', a) =
                        IF p = HID_PROTOCOL_MOUSE
                        THEN THREAT_SAFE ELSE THREAT_POTENTIALLY_UNSAFE]_vars

\* the only HID interface of the connected device has the mouse role and the
\* level is CAUTION
C27_Witness ==
    /\ 1 \in tuh_mounted
    /\ tuh_itf[1] = <<HID_PROTOCOL_MOUSE>>
    /\ Record(1) # 0
    /\ g_threat_devices[Record(1)].hid_report_count = 0
    /\ Level(1) = THREAT_POTENTIALLY_UNSAFE

\* the higher of two rates
MaxRate(x, y) == IF x > y THEN x ELSE y

\* C30: a rate sample starts with peak rate and current rate 0; while its
\* slot stays monitored every step leaves the peak rate at the higher of the
\* old peak rate and the current rate after the step, so the peak rate is the
\* highest rate any window close has computed for the slot, it never
\* decreases, and it is at least the current rate in every state.
C30_PeakRate ==
    /\ [](\A i \in Slots :
            g_hid_monitors[i].is_monitoring =>
                g_hid_monitors[i].peak_rate_hz >= g_hid_monitors[i].current_rate_hz)
    /\ [][\A i \in Slots :
            /\ (g_hid_monitors[i].is_monitoring /\ g_hid_monitors'[i].is_monitoring)
                   => /\ g_hid_monitors'[i].peak_rate_hz =
                             MaxRate(g_hid_monitors[i].peak_rate_hz,
                                     g_hid_monitors'[i].current_rate_hz)
                      /\ g_hid_monitors'[i].peak_rate_hz
                             >= g_hid_monitors[i].peak_rate_hz
            /\ (~g_hid_monitors[i].is_monitoring /\ g_hid_monitors'[i].is_monitoring)
                   => /\ g_hid_monitors'[i].peak_rate_hz = 0
                      /\ g_hid_monitors'[i].current_rate_hz = 0]_vars

\* two windows of the sample read for address 1 have closed, the first with
\* the higher rate: the peak rate is above the current rate
C30_Witness ==
    /\ Sample(1) # 0
    /\ g_hid_monitors[Sample(1)].last_window_start_ms = 2 * KEYSTROKE_RATE_WINDOW_MS
    /\ g_hid_monitors[Sample(1)].current_rate_hz > 0
    /\ g_hid_monitors[Sample(1)].peak_rate_hz > g_hid_monitors[Sample(1)].current_rate_hz

\* ----------------------------------------------------------- SpecDetector
\* The passive detection of usb_detector.c on its own: the main loop calls
\* usb_detector_update() again and again, the D+ and D- inputs change as a
\* device is plugged and pulled, the application takes the LED over with
\* usb_detector_set_led() and hands it back with usb_detector_init(), and the
\* clock advances DetectorStepMs at a time.  The host tables stay empty.
LedArgs == {0, 1, 255}

DetectorFrame ==
    UNCHANGED <<g_usb_devices, g_hub_connected, g_threat_devices,
                g_hid_monitors, tuh_mounted, tuh_itf, events, registered,
                mounting>>

DetectorInitEvent ==
    /\ usb_detector' = usb_detector_init(now)
    /\ UNCHANGED <<pins, now>>
    /\ DetectorFrame

DetectorUpdateEvent ==
    /\ usb_detector' = usb_detector_update(usb_detector, pins, now)
    /\ UNCHANGED <<pins, now>>
    /\ DetectorFrame

DetectorSetLedEvent ==
    \E state \in LedArgs :
        /\ usb_detector' = usb_detector_set_led(usb_detector, state)
        /\ UNCHANGED <<pins, now>>
        /\ DetectorFrame

PinEvent ==
    \E dp \in BOOLEAN, dm \in BOOLEAN :
        /\ pins' = [dp |-> dp, dm |-> dm]
        /\ pins' # pins
        /\ UNCHANGED <<usb_detector, now>>
        /\ DetectorFrame

DetectorTick ==
    /\ now + DetectorStepMs <= MaxDetectorTime
    /\ now' = now + DetectorStepMs
    /\ UNCHANGED <<usb_detector, pins>>
    /\ DetectorFrame

NextDetector ==
    \/ DetectorInitEvent
    \/ DetectorUpdateEvent
    \/ DetectorSetLedEvent
    \/ PinEvent
    \/ DetectorTick

SpecDetector == Init /\ [][NextDetector]_vars

\* the sampled inputs disagree with the detector state
SampleDisagrees ==
    usb_detector_detect_device(pins)
        # (usb_detector.current_state = USB_DETECTOR_STATE_DETECTED)

\* the automatic blinking would toggle the LED at this clock value
ToggleDue ==
    now - usb_detector.led_last_toggle_ms >=
        (IF usb_detector.current_state = USB_DETECTOR_STATE_SEARCHING
         THEN USB_DETECTOR_SEARCH_BLINK_PERIOD_MS
         ELSE USB_DETECTOR_DEVICE_BLINK_PERIOD_MS) \div 2

\* C28: usb_detector_set_led(s) leaves the LED at (s != 0) and takes it over;
\* from then on no usb_detector_update() changes the LED or gives it back, only
\* usb_detector_init() does; an update under manual control still debounces the
\* inputs and changes SEARCHING/DETECTED exactly as it does otherwise; after
\* usb_detector_init() the LED is off, automatic again, and the next update at
\* which half a blink period has elapsed toggles it.
C28_ManualLed ==
    [][/\ \A s \in LedArgs :
            (DetectorFrame /\ usb_detector' = usb_detector_set_led(usb_detector, s))
                => /\ usb_detector'.led_state = (s # 0)
                   /\ usb_detector'.manual_led_control
       /\ (DetectorUpdateEvent /\ usb_detector.manual_led_control)
            => /\ usb_detector'.led_state = usb_detector.led_state
               /\ usb_detector'.manual_led_control
       /\ DetectorUpdateEvent
            => usb_detector'.current_state =
                   IF SampleDisagrees
                      /\ usb_detector.debounce_counter
                             + USB_DETECTOR_UPDATE_INTERVAL_MS
                         >= USB_DETECTOR_VBUS_DEBOUNCE_MS
                   THEN IF usb_detector_detect_device(pins)
                        THEN USB_DETECTOR_STATE_DETECTED
                        ELSE USB_DETECTOR_STATE_SEARCHING
                   ELSE usb_detector.current_state
       /\ (usb_detector.manual_led_control /\ ~usb_detector'.manual_led_control)
            => DetectorInitEvent
       /\ DetectorInitEvent
            => /\ ~usb_detector'.manual_led_control
               /\ ~usb_detector'.led_state
       /\ (DetectorUpdateEvent /\ ~usb_detector.manual_led_control
             /\ ToggleDue /\ ~SampleDisagrees)
            => usb_detector'.led_state = ~usb_detector.led_state
      ]_vars

\* the LED was switched on by hand and has stayed on although a toggle is long
\* due, and the detector has gone to DETECTED in an update made while the
\* toggle was already due, that is, under manual control
C28_Witness ==
    /\ usb_detector.manual_led_control
    /\ usb_detector.led_state
    /\ usb_detector.current_state = USB_DETECTOR_STATE_DETECTED
    /\ usb_detector.state_change_time_ms - usb_detector.led_last_toggle_ms
           >= USB_DETECTOR_SEARCH_BLINK_PERIOD_MS \div 2
    /\ now - usb_detector.led_last_toggle_ms
           >= USB_DETECTOR_SEARCH_BLINK_PERIOD_MS

\* --------------------------------------------------------------- SpecGpio
\* usb_host.c built for passive detection: TinyUSB host mode is off, and the
\* identity table is filled by usb_register_gpio_device() and emptied by
\* usb_unregister_gpio_device().  A registered device has the address of its
\* slot (dev_addr = i + 1 for the C slot i), class 0xFF and no HID flag.
USB_CLASS_UNKNOWN == 255

GpioFrame ==
    UNCHANGED <<g_hub_connected, g_hid_monitors, tuh_mounted, tuh_itf, now,
                events, usb_detector, pins, mounting>>

usb_register_gpio_device ==
    LET i == FirstSlot({j \in Slots : ~g_usb_devices[j].is_mounted})
    IN  /\ IF i = 0
           THEN UNCHANGED <<g_usb_devices, g_threat_devices, registered>>
           ELSE LET dev == [ZeroDevice EXCEPT !.dev_addr = i,
                                              !.usb_class = USB_CLASS_UNKNOWN,
                                              !.is_hid = FALSE,
                                              !.is_mounted = TRUE]
                IN  /\ g_usb_devices' = [g_usb_devices EXCEPT ![i] = dev]
                    /\ g_threat_devices' = threat_add_device(g_threat_devices, dev)
                    /\ registered' = Append(registered, i)
        /\ GpioFrame

usb_unregister_gpio_device ==
    LET i == FirstSlot({j \in Slots : g_usb_devices[j].is_mounted})
    IN  /\ IF i = 0
           THEN UNCHANGED <<g_usb_devices, g_threat_devices, registered>>
           ELSE /\ g_threat_devices' =
                       threat_remove_device(g_threat_devices,
                                            g_usb_devices[i].dev_addr)
                /\ g_usb_devices' = [g_usb_devices EXCEPT ![i] = ZeroDevice]
                /\ registered' =
                       SelectSeq(registered,
                                 LAMBDA a : a # g_usb_devices[i].dev_addr)
        /\ GpioFrame

\* no caller of the two functions is part of the sources, so they are called
\* at any time, between the detector updates and the pin changes of the
\* passive detection that is to drive them
NextGpio ==
    \/ usb_register_gpio_device
    \/ usb_unregister_gpio_device
    \/ DetectorUpdateEvent
    \/ PinEvent

SpecGpio == Init /\ [][NextGpio]_vars

\* the address registered last among those still tracked, 0 if there is none
LastRegistered ==
    IF registered = <<>> THEN 0 ELSE registered[Len(registered)]

\* the slot usb_unregister_gpio_device clears: the first mounted one
FirstMounted == FirstSlot({j \in Slots : g_usb_devices[j].is_mounted})

\* a call of usb_unregister_gpio_device with a device to remove
UnregisterStep ==
    /\ registered # <<>>
    /\ usb_unregister_gpio_device

\* C29 (as stated): an unregister removes, from the identity table and from
\* threat tracking, the device registered last among those still tracked, and
\* leaves the devices registered earlier in place.
C29_RemovesLastRegistered ==
    [][UnregisterStep
         => /\ usb_get_device_info(g_usb_devices', LastRegistered) = 0
            /\ threat_get_device_status(g_threat_devices', LastRegistered) = 0
            /\ \A k \in 1 .. (Len(registered) - 1) :
                   /\ usb_get_device_info(g_usb_devices', registered[k]) # 0
                   /\ threat_get_device_status(g_threat_devices',
                                               registered[k]) # 0
      ]_vars

\* C29 (what the code does): an unregister removes the tracked device in the
\* lowest slot, whenever it was registered, from both tables and leaves every
\* other tracked device in place.
C29_RemovesFirstMounted ==
    [][UnregisterStep
         => /\ usb_get_device_info(g_usb_devices', FirstMounted) = 0
            /\ threat_get_device_status(g_threat_devices', FirstMounted) = 0
            /\ \A a \in Slots \ {FirstMounted} :
                   /\ usb_get_device_info(g_usb_devices', a)
                          = usb_get_device_info(g_usb_devices, a)
                   /\ (threat_get_device_status(g_threat_devices', a) # 0)
                          = (threat_get_device_status(g_threat_devices, a) # 0)
      ]_vars

\* two devices are tracked, and the one registered last is not the one in the
\* first mounted slot
C29_Witness ==
    /\ Len(registered) >= 2
    /\ LastRegistered # FirstMounted
    /\ usb_get_device_info(g_usb_devices, LastRegistered) # 0
    /\ threat_get_device_status(g_threat_devices, LastRegistered) # 0

\* a report event for address a of n reports leaves the counters of the rate
\* sample in slot i as the window rule prescribes: the first report closes the
\* window when the window length has elapsed, the others are counted
CountsReports(i, n) ==
    LET mon == g_hid_monitors[i]
        new == g_hid_monitors'[i]
    IN  /\ new.total_reports = mon.total_reports + n
        /\ IF now - mon.last_window_start_ms >= KEYSTROKE_RATE_WINDOW_MS
           THEN /\ new.reports_this_second = n - 1
                /\ new.last_window_start_ms = now
           ELSE /\ new.reports_this_second = mon.reports_this_second + n
                /\ new.last_window_start_ms = mon.last_window_start_ms

\* C31 (as stated): every active rate sample of an address counts every
\* report delivered for that address: a report that does not close the window
\* adds one to the window count, a report that closes it resets the count to 0
\* and the window start to the time of that report, and every report adds one
\* to the lifetime total.
C31_WindowCounter ==
    [][\A a \in DevAddrs, n \in ReportBursts :
          tuh_hid_report_received_cb(a, n)
              => \A i \in MonitorSlots(a) : CountsReports(i, n)]_vars

\* C31 (what the code does): the reports are counted in the sample that the
\* lookup by address finds, which is the first one in slot order; every other
\* sample of the address keeps its counters.
C31_FirstSampleCounts ==
    [][\A a \in DevAddrs, n \in ReportBursts :
          (tuh_hid_report_received_cb(a, n) /\ Sample(a) # 0)
              => /\ CountsReports(Sample(a), n)
                 /\ \A i \in Slots \ {Sample(a)} :
                        g_hid_monitors'[i] = g_hid_monitors[i]]_vars

\* the connected device has two rate samples; reports of this session are
\* counted in the first, the second has counted none
C31_Witness ==
    /\ 1 \in tuh_mounted
    /\ Cardinality(MonitorSlots(1)) = 2
    /\ g_hid_monitors[Sample(1)].total_reports > 0
    /\ \E i \in MonitorSlots(1) : g_hid_monitors[i].total_reports = 0

\* the number of consecutive disagreeing updates the debounce counter stands for
DisagreeingUpdates ==
    usb_detector.debounce_counter \div USB_DETECTOR_UPDATE_INTERVAL_MS

\* the update at which the debounce time is reached
DebounceReached ==
    usb_detector.debounce_counter + USB_DETECTOR_UPDATE_INTERVAL_MS
        >= USB_DETECTOR_VBUS_DEBOUNCE_MS

NextDetectorLive ==
    \/ DetectorUpdateEvent
    \/ DetectorSetLedEvent
    \/ PinEvent
    \/ DetectorTick

SpecDetectorLive ==
    Init /\ [][NextDetectorLive]_vars /\ WF_vars(DetectorUpdateEvent)

\* D+ or D- is high
InputPresent == pins.dp \/ pins.dm

tuh_mount_cb_begin(daddr) ==
    LET i == _find_free_slot(g_usb_devices)
    IN  /\ mounting = NoMount
        /\ IF i = 0
           THEN UNCHANGED <<g_usb_devices, mounting>>
           ELSE /\ g_usb_devices' =
                       [g_usb_devices EXCEPT ![i] =
                           [ZeroDevice EXCEPT !.dev_addr = daddr,
                                              !.is_mounted = TRUE]]
                /\ mounting' = [daddr |-> daddr, slot |-> i]
        /\ tuh_mounted' = tuh_mounted \cup {daddr}
        /\ UNCHANGED <<g_hub_connected, g_threat_devices, g_hid_monitors,
                       tuh_itf, now, gpio>>

\* tuh_mount_cb from the return of the transfers on: xfer_ok tells whether the
\* device descriptor arrived, class is its bDeviceClass; dev still points to
\* the slot taken at the beginning, whatever the slot holds by now
tuh_mount_cb_end(xfer_ok, class) ==
    LET i   == mounting.slot
        dev == IF xfer_ok
               THEN [g_usb_devices[i] EXCEPT !.usb_class = class]
               ELSE g_usb_devices[i]
    IN  /\ mounting # NoMount
        /\ g_usb_devices' = [g_usb_devices EXCEPT ![i] = dev]
        /\ g_hub_connected' = IF xfer_ok /\ class = USB_CLASS_HUB
                              THEN TRUE ELSE g_hub_connected
        /\ g_threat_devices' = threat_add_device(g_threat_devices, dev)
        /\ mounting' = NoMount
        /\ UNCHANGED <<g_hid_monitors, tuh_mounted, tuh_itf, now, gpio>>

\* a device attaches and its tuh_mount_cb starts
ReMountBeginEvent ==
    \E a \in DevAddrs \ tuh_mounted :
        /\ events < MaxReentrantEvents
        /\ tuh_mount_cb_begin(a)
        /\ events' = events + 1

\* the transfers return: with the descriptor while the device is attached,
\* with an error in any case
ReMountEndEvent ==
    \E ok \in BOOLEAN, c \in DeviceClasses :
        /\ events < MaxReentrantEvents
        /\ ok => mounting.daddr \in tuh_mounted
        /\ ~ok => c = 0
        /\ tuh_mount_cb_end(ok, c)
        /\ events' = events + 1

\* a device is removed, also while a tuh_mount_cb waits
ReUmountEvent ==
    \E a \in tuh_mounted :
        /\ events < MaxReentrantEvents
        /\ tuh_umount_cb(a)
        /\ events' = events + 1

\* a HID interface of a fully mounted device mounts
ReHidMountEvent ==
    \E a \in tuh_mounted :
        /\ events < MaxReentrantEvents
        /\ mounting = NoMount
        /\ tuh_itf[a] = <<>>
        /\ tuh_hid_mount_cb(a, HID_PROTOCOL_KEYBOARD)
        /\ events' = events + 1

\* reports of a mounted HID interface arrive, also while a tuh_mount_cb waits
ReReportEvent ==
    \E a \in tuh_mounted, n \in ReportBursts :
        /\ events < MaxReentrantEvents
        /\ tuh_itf[a] # <<>>
        /\ ReportsWithinBound(a, n)
        /\ tuh_hid_report_received_cb(a, n)
        /\ events' = events + 1

NextReentrant ==
    \/ ReMountBeginEvent
    \/ ReMountEndEvent
    \/ ReUmountEvent
    \/ ReHidMountEvent
    \/ ReReportEvent

SpecReentrant == Init /\ [][NextReentrant]_vars

\* the handlers that the host task dispatches for address a
HandlerStarts(a) ==
    \/ tuh_mount_cb_begin(a)
    \/ tuh_umount_cb(a)
    \/ \E p \in ItfProtocols : tuh_hid_mount_cb(a, p)
    \/ \E n \in ReportBursts : tuh_hid_report_received_cb(a, n)

\* C34: a handler starts only when no other handler is under way, and the
\* state it finds is that of completed events: every mounted identity row has
\* the Threat Record that its device-mounted event adds.
C34_AtomicHandlers ==
    [][\A a \in DevAddrs :
          HandlerStarts(a)
              => /\ mounting = NoMount
                 /\ \A b \in DevAddrs :
                        usb_is_device_mounted(g_usb_devices, b) => Record(b) # 0
      ]_vars

\* the device at address 1 was removed while its tuh_mount_cb waited for a
\* descriptor: tuh_umount_cb(1) has cleared the row that was marked mounted
\* and had no Threat Record yet, and the tuh_mount_cb is still under way
C34_Witness ==
    /\ mounting.daddr = 1
    /\ 1 \notin tuh_mounted
    /\ g_usb_devices[mounting.slot] = ZeroDevice
    /\ Record(1) = 0

\* the rate sample in slot i has counted reports of the open connection of
\* address a only: the threat record, which starts at 0 with the connection,
\* has counted every one of them too
CountedInConnection(i, a) ==
    /\ Record(a) # 0
    /\ g_hid_monitors[i].total_reports
           <= g_threat_devices[Record(a)].hid_report_count

\* C35: whenever the level of an address is MALICIOUS, the address has an
\* active rate sample with a peak rate above 50, and that sample has counted
\* reports of the current connection only, so that the peak was computed from
\* them.
C35_NoFalseMalicious ==
    \A a \in DevAddrs :
        Level(a) = THREAT_MALICIOUS
            => \E i \in MonitorSlots(a) :
                   /\ g_hid_monitors[i].peak_rate_hz > HID_KEYSTROKE_THRESHOLD_HZ
                   /\ CountedInConnection(i, a)

\* the connected device is MALICIOUS on a peak rate above 50 of a sample that
\* has counted more reports than the connection has delivered
C35_Witness ==
    /\ 1 \in tuh_mounted
    /\ Level(1) = THREAT_MALICIOUS
    /\ Sample(1) # 0
    /\ g_hid_monitors[Sample(1)].peak_rate_hz > HID_KEYSTROKE_THRESHOLD_HZ
    /\ g_hid_monitors[Sample(1)].total_reports
           > g_threat_devices[Record(1)].hid_report_count

\* C36: at every event boundary, a connected device that has an identity row
\* and an active rate sample with a peak rate above 50 has a Threat Record
\* whose level is MALICIOUS.
C36_NoMissedEscalation ==
    \A a \in tuh_mounted :
        (/\ usb_is_device_mounted(g_usb_devices, a)
         /\ \E i \in MonitorSlots(a) :
                g_hid_monitors[i].peak_rate_hz > HID_KEYSTROKE_THRESHOLD_HZ)
            => /\ Record(a) # 0
               /\ Level(a) = THREAT_MALICIOUS

\* the connected device has an identity row, a Threat Record at SAFE that has
\* counted no report, and a rate sample whose peak rate is above 50
C36_Witness ==
    /\ 1 \in tuh_mounted
    /\ usb_is_device_mounted(g_usb_devices, 1)
    /\ Record(1) # 0
    /\ Level(1) = THREAT_SAFE
    /\ g_threat_devices[Record(1)].hid_report_count = 0
    /\ Sample(1) # 0
    /\ g_hid_monitors[Sample(1)].peak_rate_hz > HID_KEYSTROKE_THRESHOLD_HZ

\* --------------------------------------------------------------- SpecPair
\* Two addresses side by side: any of the four events for either address at
\* any time, MaxPairEvents of them at most, and the clock.
PairMountEvent ==
    \E a \in DevAddrs, c \in DeviceClasses :
        /\ events < MaxPairEvents
        /\ tuh_mount_cb(a, c)
        /\ events' = events + 1

PairUmountEvent ==
    \E a \in DevAddrs :
        /\ events < MaxPairEvents
        /\ tuh_umount_cb(a)
        /\ events' = events + 1

\* the interface protocol is stored nowhere in the three tables, so one role
\* stands for all
PairHidMountEvent ==
    \E a \in DevAddrs :
        /\ events < MaxPairEvents
        /\ tuh_hid_mount_cb(a, HID_PROTOCOL_KEYBOARD)
        /\ events' = events + 1

PairReportEvent ==
    \E a \in DevAddrs, n \in ReportBursts :
        /\ events < MaxPairEvents
        /\ ReportsWithinBound(a, n)
        /\ tuh_hid_report_received_cb(a, n)
        /\ events' = events + 1

NextPair ==
    \/ PairMountEvent
    \/ PairUmountEvent
    \/ PairHidMountEvent
    \/ PairReportEvent
    \/ ClockStep

SpecPair == Init /\ [][NextPair]_vars

\* what the three tables hold for address a, slot by slot
IdentityOf(U, a) ==
    [i \in Slots |-> IF U[i].is_mounted /\ U[i].dev_addr = a
                     THEN U[i] ELSE ZeroDevice]

ThreatOf(T, a) ==
    [i \in Slots |-> IF T[i].is_active /\ T[i].device.dev_addr = a
                     THEN T[i] ELSE ZeroThreat]

SampleOf(M, a) ==
    [i \in Slots |-> IF M[i].is_monitoring /\ M[i].dev_addr = a
                     THEN M[i] ELSE ZeroMonitor]

\* one of the four events for address b
EventFor(b) ==
    \/ \E c \in DeviceClasses : tuh_mount_cb(b, c)
    \/ tuh_umount_cb(b)
    \/ \E p \in ItfProtocols : tuh_hid_mount_cb(b, p)
    \/ \E n \in ReportBursts : tuh_hid_report_received_cb(b, n)

\* the tables after n reports for address a delivered with the rows of every
\* other address taken out
ReportedAlone(a, n) ==
    ReportTimes([mon |-> SampleOf(g_hid_monitors, a),
                 thr |-> ThreatOf(g_threat_devices, a)],
                IdentityOf(g_usb_devices, a), a, now, n)

DisplayPoint == mounting = NoMount

\* the identity row and the threat record that index k names carry one address
AlignedAt(k) ==
    LET u == usb_get_device_at_index(g_usb_devices, k)
        t == threat_get_device_at_index(g_threat_devices, k)
    IN  \/ u = 0 /\ t = 0
        \/ /\ u # 0
           /\ t # 0
           /\ g_usb_devices[u].dev_addr = g_threat_devices[t].device.dev_addr

\* C38: whenever the display can run, for every index k the identity row of
\* usb_get_device_at_index(k) and the threat record of
\* threat_get_device_at_index(k) are both absent or carry the same device
\* address, so the level drawn at index 0 belongs to the device drawn there.
C38_IndexAlignment == DisplayPoint => \A k \in Indices : AlignedAt(k)

\* two devices are attached, no handler is running, and index 0 names the
\* row of one address in the identity table and the record of the other in
\* the threat table
C38_Witness ==
    /\ DisplayPoint
    /\ usb_get_device_at_index(g_usb_devices, 0) # 0
    /\ threat_get_device_at_index(g_threat_devices, 0) # 0
    /\ g_usb_devices[usb_get_device_at_index(g_usb_devices, 0)].dev_addr
           # g_threat_devices[threat_get_device_at_index(g_threat_devices,
                                                         0)].device.dev_addr
    /\ tuh_mounted = DevAddrs

\* ---------------------------------------------------------------- SpecWide
\* The rate computation on window counts around the largest count whose
\* product with 1000 fits a uint32_t.  As in SpecRate the device of address 1
\* is mounted with one HID interface whose sample was started at time 0; it
\* has delivered c reports since, all of them in the window that is still
\* open, and one more report arrives at a clock value of RateClocks.

\* the largest uint32_t count n with n * 1000 < 2^32
WrapCount == 4294967

\* the counts of the open window: up to MaxWideOffset below and above
\* WrapCount and twice WrapCount
WideCounts ==
    {k * WrapCount + d : k \in {1, 2},
                         d \in (0 - MaxWideOffset) .. MaxWideOffset}

InitWide ==
    \E c \in WideCounts, t \in RateClocks :
        /\ g_usb_devices = RateTables(c).usb
        /\ g_threat_devices = RateTables(c).st.thr
        /\ g_hid_monitors = RateTables(c).st.mon
        /\ g_hub_connected = FALSE
        /\ tuh_mounted = {1}
        /\ tuh_itf = [a \in DevAddrs |-> IF a = 1 THEN <<HID_PROTOCOL_KEYBOARD>>
                                                  ELSE <<>>]
        /\ now = t
        /\ events = 0
        /\ usb_detector = usb_detector_init(0)
        /\ pins = PinsLow
        /\ registered = <<>>
        /\ mounting = NoMount

\* one report; it closes the window when the clock has reached 1000
WideReportEvent ==
    /\ events = 0
    /\ tuh_hid_report_received_cb(1, 1)
    /\ events' = 1

NextWide == WideReportEvent

SpecWide == InitWide /\ [][NextWide]_vars

\* floor(n * 1000 / e) of the unbounded integers n >= 0 and e > 0, computed
\* from the quotient and the remainder of n by e
ExactRate(n, e) == (n \div e) * 1000 + ((n % e) * 1000) \div e

\* C39: whenever hid_monitor_report closes a window with n reports counted in
\* it after e >= 1000 time-units, the stored rate is floor(n * 1000 / e), the
\* product n * 1000 not being reduced modulo 2^32, and the rate is below 2^32.
C39_NoWrap ==
    [][\A a \in DevAddrs :
          (Sample(a) # 0 /\ tuh_hid_report_received_cb(a, 1)
             /\ Elapsed(a) >= KEYSTROKE_RATE_WINDOW_MS)
              => /\ hid_get_keystroke_rate(g_hid_monitors', a)
                        = ExactRate(WindowCount(a), Elapsed(a))
                 /\ hid_get_keystroke_rate(g_hid_monitors', a) \div HalfWord
                        < HalfWord]_vars

\* the report number WrapCount + 1 has closed the first window at time 1000:
\* the product is 2^32 + 704, the stored rate is 704 / 1000 = 0
C39_Witness ==
    /\ Sample(1) # 0
    /\ g_hid_monitors[Sample(1)].total_reports = WrapCount + 1
    /\ g_hid_monitors[Sample(1)].reports_this_second = 0
    /\ g_hid_monitors[Sample(1)].last_window_start_ms = KEYSTROKE_RATE_WINDOW_MS
    /\ hid_get_keystroke_rate(g_hid_monitors, 1) = 0

====
